---- MODULE Spec2Model ----
(***************************************************************************)
(* A model of cocoindex-code: the incremental index builder (indexer.py),  *)
(* the vector query (query.py), the MCP server with its index lock         *)
(* (server.py), the configuration read from the environment (config.py)    *)
(* and the local embedder (embedder.py, shared.py).                        *)
(*                                                                         *)
(* Library behaviour the source relies on, as the model takes it:          *)
(*  - cocoindex mounts one processing component per file path; a memoised  *)
(*    component whose input fingerprint is unchanged is not re-run and     *)
(*    keeps the rows it declared; a re-run component's declared rows are   *)
(*    diffed against the rows it declared before (upsert what is new or    *)
(*    changed, delete what is no longer declared); a component that is no  *)
(*    longer mounted when app_main ends is dropped with its rows.          *)
(*  - IdGenerator.next_id(dep) gives a distinct id on each call, also for  *)
(*    equal dep values; the id is memoised in the calling component by     *)
(*    (dep, number of earlier calls with that dep), so it is stable over   *)
(*    re-runs of that component.  The model names an id by that key.       *)
(*  - PatternFilePathMatcher matches globs against the path relative to    *)
(*    the root, `*` crossing `/`, a leading `**/` standing for zero or     *)
(*    more directories and a trailing `/**` for everything below.          *)
(*  - asyncio.Lock is FIFO: release wakes the first waiter, and an arrival *)
(*    queues behind existing waiters.                                      *)
(*  - a function declared with memo=True is answered from the memo when   *)
(*    it was called before with an equal memo key of its arguments (for an *)
(*    embedder, its __coco_memo_key__, together with the text); with       *)
(*    batching=True the calls that miss are handed to the body in lists of *)
(*    at most max_batch_size texts.                                        *)
(* Strings of the environment are sequences of tokens; a path is the       *)
(* sequence of its component names below "/".                              *)
(***************************************************************************)
EXTENDS Integers, Sequences, FiniteSets, TLC

VARIABLES
    fs,           \* the codebase tree: path -> content
    indexDir,     \* <root>/.cocoindex_code exists
    dbFile,       \* target_sqlite.db exists
    tableExists,  \* table code_chunks exists in target_sqlite.db
    rows,         \* the rows of code_chunks
    comp,         \* cocoindex.db: per component process/<path>, its memo and declared rows
    proc,         \* the running process: "off", "serve" or "index"
    pc,           \* per task, where it stands
    req,          \* per task, the arguments of the tool call it serves
    result,       \* per task, what the call returned
    lockHolder,   \* _index_lock: the task holding it, or NoTask
    waiters,      \* _index_lock: the tasks waiting, first come first
    todo,         \* per task, the walked files its pass has not yet mounted
    mounted,      \* per task, the files its pass has mounted
    conn,         \* CodebaseQuerier._conn is open
    sync,         \* history: a pass has completed and the tree is unchanged since it began
    rowsAtBegin,  \* history: the rows when the last pass began
    writes,       \* history: upserts and deletes issued by the last pass
    cleanAtBegin, \* history: the value of sync when the last pass began
    noIndexSeen,  \* history: a query was refused because the database file was missing
    ran,          \* history: the files process_file ran on in the last pass
    order,        \* history: the files the pass in progress has mounted, in the order
                  \*          it did
    afterCrash,   \* history: "partial" when the last pass began after a pass that had
                  \*          failed or was cut short after processing files, else "no"
    editedSince,  \* history: per task serving a search that refreshes, the files edited
                  \*          since the request arrived
    lastDone,     \* history: the tree as the last pass completed over it, or NoTree
                  \*          once a later pass has failed or was cut short
    env,          \* os.environ: the COCOINDEX_CODE_* variables
    cwd,          \* the working directory processes start in
    marks,        \* per directory from "/" down to the deepest cwd, the marker names in it
    torch,        \* "missing", or what torch.cuda.is_available() answers: "cuda", "nocuda"
    config,       \* shared.config of the running process
    embedder,     \* shared.embedder of the running process
    memo,         \* the memoised results of embedder.embed
    lastCall,     \* history: the last call of embedder.embed
    restored,     \* the embedder last rebuilt from its pickled state
    threads,      \* per thread in _get_model: where it stands, for whom, what it got
    modelLock,    \* LocalEmbedder._lock: the thread holding it, or NoThread
    loads         \* history: how often SentenceTransformer(...) was called for the
                  \*          embedder, and the serial number of the model in _model

vars == <<fs, indexDir, dbFile, tableExists, rows, comp, proc, pc, req, result,
          lockHolder, waiters, todo, mounted, conn, sync, rowsAtBegin, writes,
          cleanAtBegin, noIndexSeen, ran, order, afterCrash, editedSince,
          lastDone, env, cwd, marks, torch, config,
          embedder, memo, lastCall, restored, threads, modelLock, loads>>

(***************************************************************************)
(* Paths.  A path is named by its string (what str(file.file_path.path)    *)
(* gives) and matched as a sequence of tokens: words, "." and "/".         *)
(***************************************************************************)
PathTokens(p) ==
    CASE p = "a.py"              -> <<"a", ".", "py">>
      [] p = "lib/b.py"          -> <<"lib", "/", "b", ".", "py">>
      [] p = "src/.hidden/d.py"  -> <<"src", "/", ".", "hidden", "/", "d", ".", "py">>
      [] p = "node_modules/c.js" -> <<"node_modules", "/", "c", ".", "js">>
      [] p = "notes.txt"         -> <<"notes", ".", "txt">>
      [] p = ".venv/x.py"        -> <<".", "venv", "/", "x", ".", "py">>
      [] p = ".git/hooks/h.py"   -> <<".", "git", "/", "hooks", "/", "h", ".", "py">>
      [] p = "sub/.git/h.py"     -> <<"sub", "/", ".", "git", "/", "h", ".", "py">>
      [] p = ".cocoindex_code/g.py" -> <<".", "cocoindex_code", "/", "g", ".", "py">>
      [] p = "sub/.cocoindex_code/g.py"
                                 -> <<"sub", "/", ".", "cocoindex_code", "/", "g", ".", "py">>
      [] p = "pkg/build/out.ts"  -> <<"pkg", "/", "build", "/", "out", ".", "ts">>
      [] p = "vendor/m.go"       -> <<"vendor", "/", "m", ".", "go">>
      [] p = "rs/target/x.rs"    -> <<"rs", "/", "target", "/", "x", ".", "rs">>
      [] p = "dist/app.js"       -> <<"dist", "/", "app", ".", "js">>
      [] p = "sub/__pycache__/m.py"
                                 -> <<"sub", "/", "__pycache__", "/", "m", ".", "py">>
      [] p = "app.min.js"        -> <<"app", ".", "min", ".", "js">>
      [] p = "x.pyi"             -> <<"x", ".", "pyi">>
      [] p = "mytarget/x.rs"     -> <<"mytarget", "/", "x", ".", "rs">>
      [] p = ".eslintrc.js"      -> <<".", "eslintrc", ".", "js">>
      [] p = "Cargo.lock"        -> <<"Cargo", ".", "lock">>

\* The paths the tree of the model can hold.
TreePaths == {"a.py", "lib/b.py", "src/.hidden/d.py", "node_modules/c.js", "notes.txt"}

\* More paths, on which the filter alone is evaluated.
FilterPaths ==
    TreePaths \cup
    {".venv/x.py", ".git/hooks/h.py", "sub/.git/h.py", ".cocoindex_code/g.py",
     "sub/.cocoindex_code/g.py", "pkg/build/out.ts", "vendor/m.go", "rs/target/x.rs",
     "dist/app.js", "sub/__pycache__/m.py", "app.min.js", "x.pyi", "mytarget/x.rs",
     ".eslintrc.js", "Cargo.lock"}

INCLUDED_PATTERNS ==
    { <<"*", ".", "py">>, <<"*", ".", "pyi">>, <<"*", ".", "js">>, <<"*", ".", "jsx">>,
      <<"*", ".", "ts">>, <<"*", ".", "tsx">>, <<"*", ".", "mjs">>, <<"*", ".", "cjs">>,
      <<"*", ".", "rs">>, <<"*", ".", "go">> }

EXCLUDED_PATTERNS ==
    { <<".", "*", "/**">>,
      <<"**/", "__pycache__", "/**">>,
      <<"**/", "node_modules", "/**">>,
      <<"**/", "target", "/**">>,
      <<"**/", "dist", "/**">>,
      <<"**/", "build", "/**">>,
      <<"**/", "vendor", "/**">>,
      <<"**/", ".", "git", "/**">>,
      <<"**/", ".", "cocoindex_code", "/**">>,
      <<"*", ".", "min", ".", "js">>,
      <<"*", ".", "min", ".", "css">>,
      <<"*", ".", "lock">>,
      <<"**/", "package-lock", ".", "json">>,
      <<"**/", "yarn", ".", "lock">>,
      <<"**/", "Cargo", ".", "lock">>,
      <<"**/", "go", ".", "sum">>,
      <<"**/", "*", ".", "pyc">>,
      <<"**/", "*", ".", "pyo">>,
      <<"**/", "*", ".", "so">>,
      <<"**/", "*", ".", "dylib">>,
      <<"**/", "*", ".", "dll">> }

Drop(s, k) == SubSeq(s, k + 1, Len(s))

\* Whether glob `pat` matches the whole of the token sequence s.
RECURSIVE GlobMatch(_, _)
GlobMatch(pat, s) ==
    IF pat = <<>> THEN s = <<>>
    ELSE LET h == Head(pat)
             t == Tail(pat)
         IN  CASE h = "*"   -> \E k \in 0..Len(s) : GlobMatch(t, Drop(s, k))
               [] h = "**/" -> \/ GlobMatch(t, s)
                               \/ \E k \in 1..Len(s) : s[k] = "/" /\ GlobMatch(t, Drop(s, k))
               [] h = "/**" -> s # <<>> /\ Head(s) = "/" /\ t = <<>>
               [] OTHER     -> s # <<>> /\ Head(s) = h /\ GlobMatch(t, Tail(s))

MatchesAny(patterns, s) == \E pat \in patterns : GlobMatch(pat, s)

\* The directories above a path, each as a token sequence.
DirsOf(s) == { SubSeq(s, 1, k - 1) : k \in { i \in 1..Len(s) : s[i] = "/" } }

IsExcluded(s) == MatchesAny(EXCLUDED_PATTERNS, s)

IsDirIncluded(s) == ~IsExcluded(s)

IsFileIncluded(s) == MatchesAny(INCLUDED_PATTERNS, s) /\ ~IsExcluded(s)

\* walk_dir yields a file when no directory above it is pruned and the file matches.
IsWalked(p) ==
    /\ \A d \in DirsOf(PathTokens(p)) : IsDirIncluded(d)
    /\ IsFileIncluded(PathTokens(p))


(***************************************************************************)
(* File contents.  A text is a sequence of lines; a line is either blank   *)
(* ("ws") or carries one chunk of text, named T1, T2.                      *)
(***************************************************************************)
Absent == [kind |-> "absent", toks |-> <<>>]
Binary == [kind |-> "binary", toks |-> <<>>]
Text(toks) == [kind |-> "text", toks |-> toks]

\* str.strip(): the lines without the leading and trailing blank ones.
RECURSIVE LStrip(_)
LStrip(s) == IF s # <<>> /\ Head(s) = "ws" THEN LStrip(Tail(s)) ELSE s

RECURSIVE RStrip(_)
RStrip(s) == IF s # <<>> /\ s[Len(s)] = "ws" THEN RStrip(SubSeq(s, 1, Len(s) - 1)) ELSE s

Strip(s) == RStrip(LStrip(s))

\* splitter.split: the chunks of a text in order, each with the lines it spans.
RECURSIVE SplitFrom(_, _)
SplitFrom(toks, i) ==
    IF i > Len(toks) THEN <<>>
    ELSE IF toks[i] = "ws" THEN SplitFrom(toks, i + 1)
    ELSE <<[text |-> toks[i], start_line |-> i, end_line |-> i]>> \o SplitFrom(toks, i + 1)

Split(toks) == SplitFrom(toks, 1)

\* detect_code_language(filename) or "text", by the file's extension.
DetectLanguage(p) ==
    LET s   == PathTokens(p)
        ext == s[Len(s)]
    IN  CASE ext \in {"py", "pyi"}               -> "python"
          [] ext \in {"js", "jsx", "mjs", "cjs"} -> "javascript"
          [] ext \in {"ts", "tsx"}               -> "typescript"
          [] ext = "rs"                          -> "rust"
          [] ext = "go"                          -> "go"
          [] OTHER                               -> "text"

\* embedder.embed(text): a vector of norm 5 (a unit vector scaled by 5).
Embed(text) ==
    CASE text = "T1" -> <<3, 4>>
      [] text = "T2" -> <<4, 3>>
      [] text = "T3" -> <<0 - 3, 4>>
      [] text = "Q1" -> <<5, 0>>
      [] text = "Q2" -> <<0, 5>>
      [] OTHER       -> <<0, 0 - 5>>

\* IdGenerator.next_id(dep), called in the component of file p for the
\* (ordinal+1)-th time with this dep.
NextIdIgnoresOrdinal(p, dep, ordinal) == [path |-> p, dep |-> dep, ord |-> 0]

\* A variant that derives the id from the text and its ordinal alone, so that files
\* holding the same text declare the same id.
NextIdFromTextAlone(p, dep, ordinal) == [path |-> "", dep |-> dep, ord |-> ordinal]

NextId(p, dep, ordinal) == [path |-> p, dep |-> dep, ord |-> ordinal]

\* How many of the first k-1 chunks carry the text of chunk k.
Ordinal(chunks, k) == Cardinality({ j \in 1..(k - 1) : chunks[j].text = chunks[k].text })

\* A variant that reads undecodable bytes as one chunk of text instead of returning.
ProcessFileIndexesUndecodable(p, c) ==
    IF c.kind = "absent" THEN {}
    ELSE IF c.kind = "text" /\ Strip(c.toks) = <<>> THEN {}
    ELSE LET chunks == IF c.kind = "binary"
                       THEN <<[text |-> "T2", start_line |-> 1, end_line |-> 1]>>
                       ELSE Split(c.toks)
         IN  { [id         |-> NextId(p, chunks[k].text, Ordinal(chunks, k)),
                file_path  |-> p,
                language   |-> DetectLanguage(p),
                content    |-> chunks[k].text,
                start_line |-> chunks[k].start_line,
                end_line   |-> chunks[k].end_line,
                embedding  |-> Embed(chunks[k].text)] : k \in 1..Len(chunks) }

\* The rows one run of process_file on file p with content c declares.
process_file(p, c) ==
    IF c.kind = "binary" THEN {}
    ELSE IF Strip(c.toks) = <<>> THEN {}
    ELSE LET chunks == Split(c.toks)
         IN  { [id         |-> NextId(p, chunks[k].text, Ordinal(chunks, k)),
                file_path  |-> p,
                language   |-> DetectLanguage(p),
                content    |-> chunks[k].text,
                start_line |-> chunks[k].start_line,
                end_line   |-> chunks[k].end_line,
                embedding  |-> Embed(chunks[k].text)] : k \in 1..Len(chunks) }

Ids(rs) == { r.id : r \in rs }

\* The memo key of process_file's file argument.
Fingerprint(c) == c

NoComp == [live |-> FALSE, fp |-> Absent, declared |-> {}]

\* localfs.walk_dir with the matcher: the files present that the filter lets through.
Walk(tree) == { p \in DOMAIN tree : tree[p] # Absent /\ IsWalked(p) }

\* A variant that upserts the new rows and leaves the ones no longer declared.
ApplyDeclaredKeepsOld(table, prev, new) == table \cup new

\* The table after a component that had declared `prev` now declares `new`.
ApplyDeclared(table, prev, new) ==
    { r \in table : r.id \notin Ids(prev) \cup Ids(new) } \cup new

Upserts(prev, new) == Cardinality(new \ prev)

Deletes(prev, new) == Cardinality(Ids(prev) \ Ids(new))


(***************************************************************************)
(* The process and its tasks.                                              *)
(***************************************************************************)
SearchTasks == {"s1", "s2"}
Tasks == {"cli", "bg"} \cup SearchTasks
NoTask == "none"

\* The tools server.py registers with @mcp.tool.
Tools == {"search"}

NoReq == [tool |-> "", query |-> "", limit |-> 0, offset |-> 0, refresh_index |-> FALSE]

NoResult == [kind |-> "none", success |-> FALSE, results |-> <<>>, total_returned |-> 0,
             offset |-> 0, message |-> ""]

\* What the transport answers for a tool name that no handler is registered for.
UnknownTool == [kind |-> "unknown_tool", success |-> FALSE, results |-> <<>>,
                total_returned |-> 0, offset |-> 0, message |-> ""]

\* SearchResultModel(success=True, results=..., total_returned=len(results), offset=offset)
SearchOk(res, offset) ==
    [kind |-> "envelope", success |-> TRUE, results |-> res, total_returned |-> Len(res),
     offset |-> offset, message |-> ""]

\* The two except branches of search: message=str(e), and message="Query failed: ...".
SearchFailed(exc) ==
    [kind |-> "envelope", success |-> FALSE, results |-> <<>>, total_returned |-> 0,
     offset |-> 0,
     message |-> IF exc.type = "RuntimeError" THEN exc.msg ELSE "Query failed: " \o exc.msg]

NoIndexError == [type |-> "RuntimeError", msg |-> "Index database not found"]
NoTableError == [type |-> "OperationalError", msg |-> "no such table: code_chunks"]
BackendError == [type |-> "Exception", msg |-> "backend unavailable"]

\* What indexer_app.update can raise.
UpdateErrors == { BackendError, [type |-> "RuntimeError", msg |-> "update failed"] }

InPass(t) == pc[t] \in {"update", "app_main", "files"}

PassesInProgress == { t \in Tasks : InPass(t) }

(***************************************************************************)
(* The query: CodebaseQuerier.query and the SQL it runs.                   *)
(***************************************************************************)
Dot(a, b) == a[1] * b[1] + a[2] * b[2]

\* The vectors have norm 5, so a . b = 25 cos(a, b).
Norm2 == 5 * 5

\* vec_distance_cosine(a, b) = 1 - cos(a, b), in units of 1/25.
vec_distance_cosine(a, b) == Norm2 - Dot(a, b)

\* ORDER BY key ASC: every order of the rows with the keys ascending (the order of
\* rows with equal keys is the store's choice).
OrderBy(table, qv) ==
    LET n == Cardinality(table)
    IN  { s \in [1..n -> table] :
            /\ \A i, j \in 1..n : i # j => s[i] # s[j]
            /\ \A i \in 1..(n - 1) :
                 vec_distance_cosine(s[i].embedding, qv)
                    <= vec_distance_cosine(s[i + 1].embedding, qv) }

\* LIMIT lim OFFSET off of an ordered list.
LimitOffset(s, lim, off) ==
    SubSeq(s, off + 1, IF off + lim < Len(s) THEN off + lim ELSE Len(s))

\* The row of the SELECT list as a QueryResult; score = 1.0 - distance (in 1/25).
ToResult(r, qv) ==
    [file_path |-> r.file_path, language |-> r.language, content |-> r.content,
     start_line |-> r.start_line, end_line |-> r.end_line,
     score |-> Norm2 - vec_distance_cosine(r.embedding, qv)]

\* The result lists the SELECT can give for the arguments bound to LIMIT ? OFFSET ?.
Select(table, qv, lim, off) ==
    { [i \in 1..Len(LimitOffset(s, lim, off)) |-> ToResult(LimitOffset(s, lim, off)[i], qv)] :
        s \in OrderBy(table, qv) }

QuerySwapsLimitAndOffset(table, text, limit, offset) ==
    Select(table, Embed(text), offset, limit)

\* CodebaseQuerier.query(QueryParams(text, limit, offset)) on an open connection.
query(table, text, limit, offset) ==
    Select(table, Embed(text), limit, offset)


(***************************************************************************)
(* Configuration.  A string of the environment (a path, a model            *)
(* identifier, a flag) is a sequence of tokens; a directory is the         *)
(* sequence of the names from "/" down to it.                              *)
(***************************************************************************)
EnvVars == {"COCOINDEX_CODE_ROOT_PATH", "COCOINDEX_CODE_EMBEDDING_MODEL",
            "COCOINDEX_CODE_DEVICE", "COCOINDEX_CODE_TRUST_REMOTE_CODE",
            "COCOINDEX_CODE_BATCH_SIZE"}

\* An environment variable: not set, or set to a string (which may be empty).
NotSet == [set |-> FALSE, val |-> <<>>]
SetTo(v) == [set |-> TRUE, val |-> v]

\* os.environ.get(name, default)
EnvGet(e, name, default) == IF e[name].set THEN e[name].val ELSE default

\* `if os.environ.get(name):` -- None and "" are both false.
EnvTruthy(e, name) == e[name].set /\ e[name].val # <<>>

\* str.lower()
LowerToken(x) ==
    CASE x = "TRUE" -> "true"
      [] x = "True" -> "true"
      [] x = "Yes"  -> "yes"
      [] x = "NO"   -> "no"
      [] OTHER      -> x

Lower(v) == [i \in 1..Len(v) |-> LowerToken(v[i])]

\* Path.parent: the parent of "/" is "/".
Parent(d) == IF d = <<>> THEN d ELSE SubSeq(d, 1, Len(d) - 1)

\* (d / m).exists(), in a tree described by `marks`: directory -> names in it.
Exists(tree, d, m) == d \in DOMAIN tree /\ m \in tree[d]

NoneFound == [found |-> FALSE, dir |-> <<>>]

\* A variant of the directory creation that creates nothing.
MkdirNothing(tree, d, m) == tree

\* (d / m).mkdir(parents=True, exist_ok=True): m exists in d afterwards (a directory
\* that is not on the chain of `tree` is not recorded).
Mkdir(tree, d, m) ==
    IF d \in DOMAIN tree THEN [tree EXCEPT ![d] = @ \cup {m}] ELSE tree

\* _find_root_with_marker(start, markers)
RECURSIVE _find_root_with_marker(_, _, _)
_find_root_with_marker(tree, start, markers) ==
    IF \E m \in markers : Exists(tree, start, m)
    THEN [found |-> TRUE, dir |-> start]
    ELSE IF Parent(start) = start THEN NoneFound
    ELSE _find_root_with_marker(tree, Parent(start), markers)

IndexMarker == ".cocoindex_code"
ProjectMarkers == {".git", "pyproject.toml", "package.json", "Cargo.toml", "go.mod"}

\* A variant that looks for all the markers in one walk.
DiscoverNearestOfAnyMarker(tree, dir) ==
    LET root == _find_root_with_marker(tree, dir, {IndexMarker} \cup ProjectMarkers)
    IN  IF root.found THEN root.dir ELSE dir

\* _discover_codebase_root(), with Path.cwd() = dir
_discover_codebase_root(tree, dir) ==
    LET root == _find_root_with_marker(tree, dir, {IndexMarker})
    IN  IF root.found THEN root.dir
        ELSE LET root2 == _find_root_with_marker(tree, dir, ProjectMarkers)
             IN  IF root2.found THEN root2.dir ELSE dir

IsName(x) == x # "."

\* Path(s).resolve(): an absolute path as it is, a relative one below the cwd.
Resolve(v, dir) ==
    IF v # <<>> /\ Head(v) = "/" THEN SelectSeq(Tail(v), IsName)
    ELSE dir \o SelectSeq(v, IsName)

\* A variant that lets the accelerator probe win over the override.
DetectDeviceProbeFirst(e, probe) ==
    IF probe = "cuda" THEN <<"cuda">>
    ELSE IF EnvTruthy(e, "COCOINDEX_CODE_DEVICE") THEN e["COCOINDEX_CODE_DEVICE"].val
    ELSE <<"cpu">>

\* _detect_device(); `probe` is "missing" when torch cannot be imported, else
\* "cuda" or "nocuda" as torch.cuda.is_available() answers.
_detect_device(e, probe) ==
    IF EnvTruthy(e, "COCOINDEX_CODE_DEVICE") THEN e["COCOINDEX_CODE_DEVICE"].val
    ELSE IF probe = "missing" THEN <<"cpu">>
    ELSE IF probe = "cuda" THEN <<"cuda">> ELSE <<"cpu">>

_DEFAULT_MODEL == <<"sbert/", "jinaai/", "jina-embeddings-v2-base-code">>

NoConfig == [made |-> FALSE]

\* A variant in which the override loses against a marker above the cwd.
FromEnvDiscoveryFirst(e, tree, dir, probe) ==
    LET found == _find_root_with_marker(tree, dir, {IndexMarker} \cup ProjectMarkers)
        root == IF found.found THEN found.dir
                ELSE IF EnvTruthy(e, "COCOINDEX_CODE_ROOT_PATH")
                     THEN Resolve(e["COCOINDEX_CODE_ROOT_PATH"].val, dir)
                     ELSE dir
    IN  [made |-> TRUE,
         codebase_root_path |-> root,
         embedding_model |-> EnvGet(e, "COCOINDEX_CODE_EMBEDDING_MODEL", _DEFAULT_MODEL),
         index_dir |-> Append(root, ".cocoindex_code"),
         device |-> _detect_device(e, probe),
         trust_remote_code |->
             Lower(EnvGet(e, "COCOINDEX_CODE_TRUST_REMOTE_CODE", <<>>))
                 \in {<<"1">>, <<"true">>, <<"yes">>}]

\* Config.from_env()
from_env(e, tree, dir, probe) ==
    LET root == IF EnvTruthy(e, "COCOINDEX_CODE_ROOT_PATH")
                THEN Resolve(e["COCOINDEX_CODE_ROOT_PATH"].val, dir)
                ELSE _discover_codebase_root(tree, dir)
    IN  [made |-> TRUE,
         codebase_root_path |-> root,
         embedding_model |-> EnvGet(e, "COCOINDEX_CODE_EMBEDDING_MODEL", _DEFAULT_MODEL),
         index_dir |-> Append(root, ".cocoindex_code"),
         device |-> _detect_device(e, probe),
         trust_remote_code |->
             Lower(EnvGet(e, "COCOINDEX_CODE_TRUST_REMOTE_CODE", <<>>))
                 \in {<<"1">>, <<"true">>, <<"yes">>}]

\* Config.target_sqlite_db_path and Config.cocoindex_db_path
target_sqlite_db_path(c) == Append(c.index_dir, "target_sqlite.db")
cocoindex_db_path(c) == Append(c.index_dir, "cocoindex.db")

(***************************************************************************)
(* The embedder.                                                           *)
(***************************************************************************)
SBERT_PREFIX == "sbert/"
_QUERY_PROMPT_MODELS == { <<"nomic-ai/", "nomic-embed-code">>, <<"nomic-ai/", "CodeRankEmbed">> }
_KNOWN_REMOTE_CODE_MODELS == { <<"nomic-ai/", "CodeRankEmbed">> }

\* query_prompt_name is a string or None.
None == "None"

NoModel == [loaded |-> FALSE, name |-> <<>>, device |-> <<>>, trust_remote_code |-> FALSE]

\* SentenceTransformer(name, device=..., trust_remote_code=...)
SentenceTransformer(name, device, trust) ==
    [loaded |-> TRUE, name |-> name, device |-> device, trust_remote_code |-> trust]

NoEmbedder == [kind |-> "none"]

\* LocalEmbedder.__init__
LocalEmbedder(name, device, trust, normalize, prompt) ==
    [kind |-> "local", model_name_or_path |-> name, device |-> device,
     trust_remote_code |-> trust, normalize_embeddings |-> normalize,
     query_prompt_name |-> prompt, model |-> NoModel]

LiteLLMEmbedder(model) == [kind |-> "litellm", model |-> model]

\* A variant that hands the whole identifier, prefix included, to the local backend.
SharedEmbedderKeepsPrefix(c) ==
    IF c.embedding_model # <<>> /\ Head(c.embedding_model) = SBERT_PREFIX
    THEN LET name == Tail(c.embedding_model)
         IN  LocalEmbedder(c.embedding_model, c.device,
                           c.trust_remote_code \/ name \in _KNOWN_REMOTE_CODE_MODELS,
                           TRUE,
                           IF name \in _QUERY_PROMPT_MODELS THEN "query" ELSE None)
    ELSE LiteLLMEmbedder(c.embedding_model)

\* shared.py at import: the embedder for the configured model.
shared_embedder(c) ==
    IF c.embedding_model # <<>> /\ Head(c.embedding_model) = SBERT_PREFIX
    THEN LET name == Tail(c.embedding_model)
         IN  LocalEmbedder(name, c.device,
                           c.trust_remote_code \/ name \in _KNOWN_REMOTE_CODE_MODELS,
                           TRUE,
                           IF name \in _QUERY_PROMPT_MODELS THEN "query" ELSE None)
    ELSE LiteLLMEmbedder(c.embedding_model)

\* model.encode(text, prompt_name=...): with no prompt name the vector of the text,
\* as Embed gives it; with a prompt name the model's prompt is put before the
\* text, which gives another vector of the same norm (here the quarter turn).
Encode(text, prompt_name) ==
    IF prompt_name = None THEN Embed(text)
    ELSE <<0 - Embed(text)[2], Embed(text)[1]>>

\* LocalEmbedder.embed_query(text)
embed_query(e, text) == Encode(text, e.query_prompt_name)

\* A variant that writes the loaded model into the state as well.
GetStateWithModel(e) ==
    [model_name_or_path |-> e.model_name_or_path, device |-> e.device,
     trust_remote_code |-> e.trust_remote_code,
     normalize_embeddings |-> e.normalize_embeddings,
     query_prompt_name |-> e.query_prompt_name, _model |-> e.model]

\* LocalEmbedder.__getstate__
GetState(e) ==
    [model_name_or_path |-> e.model_name_or_path, device |-> e.device,
     trust_remote_code |-> e.trust_remote_code,
     normalize_embeddings |-> e.normalize_embeddings,
     query_prompt_name |-> e.query_prompt_name]

\* LocalEmbedder.__setstate__
SetState(st) ==
    [kind |-> "local", model_name_or_path |-> st.model_name_or_path, device |-> st.device,
     trust_remote_code |-> st.trust_remote_code,
     normalize_embeddings |-> st.normalize_embeddings,
     query_prompt_name |-> IF "query_prompt_name" \in DOMAIN st
                           THEN st.query_prompt_name ELSE None,
     model |-> NoModel]

\* LocalEmbedder._get_model: the model, loaded on first use.
GetModel(e) ==
    IF e.model.loaded THEN e.model
    ELSE SentenceTransformer(e.model_name_or_path, e.device, e.trust_remote_code)

\* A variant of the memo key without the query prompt name.
MemoKeyWithoutPrompt(e) ==
    <<e.model_name_or_path, e.device, e.trust_remote_code, e.normalize_embeddings>>

\* LocalEmbedder.__coco_memo_key__
MemoKey(e) ==
    <<e.model_name_or_path, e.device, e.trust_remote_code, e.normalize_embeddings,
      e.query_prompt_name>>

\* @coco_aio.function(batching=True, ..., max_batch_size=16)
max_batch_size == 16

NoCall == [asked |-> {}, encoded |-> {}, from |-> {}]


(***************************************************************************)
(* Actions.                                                                *)
(***************************************************************************)
storeVars == <<indexDir, dbFile, tableExists, rows, comp>>
lockVars  == <<lockHolder, waiters>>
passVars  == <<todo, mounted>>
histVars  == <<sync, rowsAtBegin, writes, cleanAtBegin, noIndexSeen, ran, order, lastDone,
               afterCrash, editedSince>>

osVars    == <<env, cwd, marks, torch>>
loadVars  == <<threads, modelLock, loads>>
confVars  == <<env, cwd, marks, torch, config, embedder, memo, lastCall, restored, loadVars>>

\* The threads that may be in LocalEmbedder._get_model, and what calls it.
Threads == {"w1", "w2", "w3"}
NoThread == "none"
ModelUsers == {"embed", "embed_query", "__coco_vector_schema__"}

NoLoads == [count |-> 0, current |-> 0]

NotCalling == [at |-> "idle", fn |-> "", got |-> [serial |-> 0, model |-> NoModel]]

ThreadsIdle ==
    /\ threads = [t \in Threads |-> NotCalling]
    /\ modelLock = NoThread
    /\ loads = NoLoads

NoTree == [p \in TreePaths |-> [kind |-> "unknown", toks |-> <<>>]]

\* The directories from "/" down to the deepest working directory of the model.
MaxDepth == 2

DirName(i) == CASE i = 1 -> "proj" [] i = 2 -> "src" [] OTHER -> "lib"

DirAt(k) == [i \in 1..k |-> DirName(i)]

ChainDirs == { DirAt(k) : k \in 0..MaxDepth }

\* An environment with no variable set, no marker anywhere and no torch.
OsDefault ==
    /\ env = [v \in EnvVars |-> NotSet]
    /\ cwd = DirAt(1)
    /\ marks = [d \in ChainDirs |-> {}]
    /\ torch = "missing"

\* No process runs: there is no config and no embedder.
ConfStopped ==
    /\ config = NoConfig
    /\ embedder = NoEmbedder
    /\ lastCall = NoCall
    /\ restored = NoEmbedder

\* main() imports shared: Config.from_env() and the module-level embedder.
ImportShared ==
    /\ config' = from_env(env, marks, cwd, torch)
    /\ embedder' = shared_embedder(config')
    /\ UNCHANGED <<osVars, memo, lastCall, restored, loadVars>>

NoWrites == [upserts |-> 0, deletes |-> 0]

Init ==
    /\ fs = [p \in TreePaths |-> Absent]
    /\ indexDir = FALSE
    /\ dbFile = FALSE
    /\ tableExists = FALSE
    /\ rows = {}
    /\ comp = [p \in TreePaths |-> NoComp]
    /\ proc = "off"
    /\ pc = [t \in Tasks |-> "idle"]
    /\ req = [t \in Tasks |-> NoReq]
    /\ result = [t \in Tasks |-> NoResult]
    /\ lockHolder = NoTask
    /\ waiters = <<>>
    /\ todo = [t \in Tasks |-> {}]
    /\ mounted = [t \in Tasks |-> {}]
    /\ conn = FALSE
    /\ sync = FALSE
    /\ rowsAtBegin = {}
    /\ writes = NoWrites
    /\ cleanAtBegin = FALSE
    /\ noIndexSeen = FALSE
    /\ ran = {}
    /\ order = <<>>
    /\ afterCrash = "no"
    /\ editedSince = [t \in Tasks |-> {}]
    /\ lastDone = NoTree
    /\ ThreadsIdle
    /\ OsDefault
    /\ ConfStopped
    /\ memo = {}

\* A file of the tree is written, replaced or removed (between passes).
EditFile(p, c) ==
    /\ PassesInProgress = {}
    /\ c # fs[p]
    /\ fs' = [fs EXCEPT ![p] = c]
    /\ sync' = FALSE
    /\ rowsAtBegin' = {}
    /\ writes' = NoWrites
    /\ cleanAtBegin' = FALSE
    /\ ran' = {}
    /\ order' = <<>>
    /\ afterCrash' = "no"
    /\ editedSince' = [t \in Tasks |-> IF req[t].refresh_index THEN editedSince[t] \cup {p}
                                        ELSE editedSince[t]]
    /\ UNCHANGED <<storeVars, proc, pc, req, result, lockVars, passVars, conn, noIndexSeen,
                   lastDone>>
    /\ UNCHANGED confVars

\* _refresh_index up to its first suspension: `async with _index_lock`.
RefreshEnterWithoutLock(t) ==
    /\ pc' = [pc EXCEPT ![t] = "update"]
    /\ UNCHANGED lockVars

\* A variant that goes on as if the index had been refreshed.
RefreshEnterSkipsUpdate(t) ==
    /\ pc' = [pc EXCEPT ![t] = IF t \in SearchTasks THEN "query" ELSE "done"]
    /\ UNCHANGED lockVars

RefreshEnter(t) ==
    IF lockHolder = NoTask /\ waiters = <<>>
    THEN /\ lockHolder' = t
         /\ waiters' = waiters
         /\ pc' = [pc EXCEPT ![t] = "update"]
    ELSE /\ waiters' = Append(waiters, t)
         /\ lockHolder' = lockHolder
         /\ pc' = [pc EXCEPT ![t] = "waiting"]

\* A variant in which leaving `async with _index_lock` keeps the lock held.
ReleasedByNobody(t) == lockHolder

\* The lock after task t leaves `async with _index_lock`.
ReleasedBy(t) == IF lockHolder = t THEN NoTask ELSE lockHolder

\* main() with the serve command: _async_serve creates the background refresh task,
\* which runs to its first suspension before any request is read.
StartServe ==
    /\ proc = "off"
    /\ proc' = "serve"
    /\ RefreshEnter("bg")
    /\ UNCHANGED <<fs, storeVars, req, result, passVars, conn, histVars>>
    /\ ImportShared

\* main() with the index command: _async_index calls indexer_app.update directly.
StartIndex ==
    /\ proc = "off"
    /\ proc' = "index"
    /\ pc' = [pc EXCEPT !["cli"] = "update"]
    /\ UNCHANGED <<fs, storeVars, req, result, lockVars, passVars, conn, histVars>>
    /\ ImportShared

\* A variant in which search refreshes the index whatever refresh_index says.
CallToolAlwaysRefreshes(t, name, q, lim, off, refresh) ==
    /\ proc = "serve"
    /\ pc[t] = "idle"
    /\ IF name \notin Tools
       THEN /\ req' = [req EXCEPT ![t] = [NoReq EXCEPT !.tool = name]]
            /\ pc' = [pc EXCEPT ![t] = "done"]
            /\ result' = [result EXCEPT ![t] = UnknownTool]
            /\ UNCHANGED lockVars
       ELSE /\ req' = [req EXCEPT ![t] = [tool |-> name, query |-> q, limit |-> lim,
                                          offset |-> off, refresh_index |-> refresh]]
            /\ result' = [result EXCEPT ![t] = NoResult]
            /\ RefreshEnter(t)
    /\ editedSince' = [editedSince EXCEPT ![t] = {}]
    /\ UNCHANGED <<fs, storeVars, proc, passVars, conn, sync, rowsAtBegin, writes,
                   cleanAtBegin, noIndexSeen, ran, order, lastDone, afterCrash>>
    /\ UNCHANGED confVars

\* A tools/call request arrives: search runs to its first suspension.
CallTool(t, name, q, lim, off, refresh) ==
    /\ proc = "serve"
    /\ pc[t] = "idle"
    /\ IF name \notin Tools
       THEN /\ req' = [req EXCEPT ![t] = [NoReq EXCEPT !.tool = name]]
            /\ pc' = [pc EXCEPT ![t] = "done"]
            /\ result' = [result EXCEPT ![t] = UnknownTool]
            /\ UNCHANGED lockVars
       ELSE /\ req' = [req EXCEPT ![t] = [tool |-> name, query |-> q, limit |-> lim,
                                          offset |-> off, refresh_index |-> refresh]]
            /\ result' = [result EXCEPT ![t] = NoResult]
            /\ IF refresh
               THEN RefreshEnter(t)
               ELSE /\ pc' = [pc EXCEPT ![t] = "query"]
                    /\ UNCHANGED lockVars
    /\ editedSince' = [editedSince EXCEPT ![t] = {}]
    /\ UNCHANGED <<fs, storeVars, proc, passVars, conn, sync, rowsAtBegin, writes,
                   cleanAtBegin, noIndexSeen, ran, order, lastDone, afterCrash>>
    /\ UNCHANGED confVars

\* A variant that wakes the waiter that came last.
WakeLastWaiter(t) ==
    /\ pc[t] = "waiting"
    /\ lockHolder = NoTask
    /\ waiters # <<>>
    /\ waiters[Len(waiters)] = t
    /\ lockHolder' = t
    /\ waiters' = SubSeq(waiters, 1, Len(waiters) - 1)
    /\ pc' = [pc EXCEPT ![t] = "update"]
    /\ UNCHANGED <<fs, storeVars, proc, req, result, passVars, conn, histVars>>
    /\ UNCHANGED confVars

\* asyncio.Lock: the first waiter is woken once the lock is free.
Wake(t) ==
    /\ pc[t] = "waiting"
    /\ lockHolder = NoTask
    /\ waiters # <<>>
    /\ Head(waiters) = t
    /\ lockHolder' = t
    /\ waiters' = Tail(waiters)
    /\ pc' = [pc EXCEPT ![t] = "update"]
    /\ UNCHANGED <<fs, storeVars, proc, req, result, passVars, conn, histVars>>
    /\ UNCHANGED confVars

\* indexer_app.update starts; coco_lifespan makes the index directory and connects
\* to (so creates) target_sqlite.db.
UpdateBegin(t) ==
    /\ pc[t] = "update"
    /\ indexDir' = TRUE
    /\ dbFile' = TRUE
    /\ marks' = Mkdir(marks, config.codebase_root_path, IndexMarker)
    /\ pc' = [pc EXCEPT ![t] = "app_main"]
    /\ cleanAtBegin' = sync
    /\ sync' = FALSE
    /\ rowsAtBegin' = rows
    /\ writes' = NoWrites
    /\ ran' = {}
    /\ order' = <<>>
    /\ afterCrash' = IF indexDir /\ lastDone = NoTree /\ ran # {} THEN "partial" ELSE "no"
    /\ UNCHANGED <<fs, tableExists, rows, comp, proc, req, result, lockVars, passVars,
                   conn, noIndexSeen, lastDone, editedSince>>
    /\ UNCHANGED <<env, cwd, torch, config, embedder, memo, lastCall, restored, loadVars>>

\* app_main: the table target is declared and the tree is walked.
AppMain(t) ==
    /\ pc[t] = "app_main"
    /\ tableExists' = TRUE
    /\ todo' = [todo EXCEPT ![t] = Walk(fs)]
    /\ mounted' = [mounted EXCEPT ![t] = {}]
    /\ pc' = [pc EXCEPT ![t] = "files"]
    /\ UNCHANGED <<fs, indexDir, dbFile, rows, comp, proc, req, result, lockVars, conn,
                   histVars>>
    /\ UNCHANGED confVars

\* A variant without memoisation and without the diff against the rows declared
\* before: every mounted file is processed and every row it declares is written.
ProcessFileRewritesAlways(t, p) ==
    /\ pc[t] = "files"
    /\ p \in todo[t]
    /\ todo' = [todo EXCEPT ![t] = @ \ {p}]
    /\ mounted' = [mounted EXCEPT ![t] = @ \cup {p}]
    /\ order' = Append(order, p)
    /\ LET new == process_file(p, fs[p])
           old == comp[p].declared
       IN  /\ rows' = ApplyDeclared(rows, old, new)
           /\ comp' = [comp EXCEPT ![p] = [live |-> TRUE, fp |-> Fingerprint(fs[p]),
                                           declared |-> new]]
           /\ writes' = [upserts |-> writes.upserts + Cardinality(new),
                         deletes |-> writes.deletes + Deletes(old, new)]
           /\ ran' = ran \cup {p}
    /\ UNCHANGED <<fs, indexDir, dbFile, tableExists, proc, pc, req, result, lockVars, conn,
                   sync, rowsAtBegin, cleanAtBegin, noIndexSeen, lastDone, afterCrash,
                   editedSince>>
    /\ UNCHANGED confVars

\* A variant without memoisation: every mounted file is processed again, and what
\* it declares is diffed against what it declared before.
ProcessFileWithoutMemo(t, p) ==
    /\ pc[t] = "files"
    /\ p \in todo[t]
    /\ todo' = [todo EXCEPT ![t] = @ \ {p}]
    /\ mounted' = [mounted EXCEPT ![t] = @ \cup {p}]
    /\ order' = Append(order, p)
    /\ LET new == process_file(p, fs[p])
           old == comp[p].declared
       IN  /\ rows' = ApplyDeclared(rows, old, new)
           /\ comp' = [comp EXCEPT ![p] = [live |-> TRUE, fp |-> Fingerprint(fs[p]),
                                           declared |-> new]]
           /\ writes' = [upserts |-> writes.upserts + Upserts(old, new),
                         deletes |-> writes.deletes + Deletes(old, new)]
           /\ ran' = ran \cup {p}
    /\ UNCHANGED <<fs, indexDir, dbFile, tableExists, proc, pc, req, result, lockVars, conn,
                   sync, rowsAtBegin, cleanAtBegin, noIndexSeen, lastDone, afterCrash,
                   editedSince>>
    /\ UNCHANGED confVars

\* A variant in which a file that process_file returns early on keeps the rows its
\* component declared before.
ProcessFileEarlyReturnKeepsRows(t, p) ==
    /\ pc[t] = "files"
    /\ p \in todo[t]
    /\ todo' = [todo EXCEPT ![t] = @ \ {p}]
    /\ mounted' = [mounted EXCEPT ![t] = @ \cup {p}]
    /\ order' = Append(order, p)
    /\ IF comp[p].live /\ comp[p].fp = Fingerprint(fs[p])
       THEN UNCHANGED <<rows, comp, writes, ran>>
       ELSE LET new == process_file(p, fs[p])
                old == comp[p].declared
            IN  IF new = {}
                THEN /\ comp' = [comp EXCEPT ![p] = [live |-> TRUE,
                                                     fp |-> Fingerprint(fs[p]),
                                                     declared |-> old]]
                     /\ ran' = ran \cup {p}
                     /\ UNCHANGED <<rows, writes>>
                ELSE /\ rows' = ApplyDeclared(rows, old, new)
                     /\ comp' = [comp EXCEPT ![p] = [live |-> TRUE,
                                                     fp |-> Fingerprint(fs[p]),
                                                     declared |-> new]]
                     /\ writes' = [upserts |-> writes.upserts + Upserts(old, new),
                                   deletes |-> writes.deletes + Deletes(old, new)]
                     /\ ran' = ran \cup {p}
    /\ UNCHANGED <<fs, indexDir, dbFile, tableExists, proc, pc, req, result, lockVars, conn,
                   sync, rowsAtBegin, cleanAtBegin, noIndexSeen, lastDone, afterCrash,
                   editedSince>>
    /\ UNCHANGED confVars

\* coco.mount(process/<p>, process_file, f, table): a memo hit keeps the component
\* as it is; otherwise process_file runs and its declared rows are applied.
ProcessFile(t, p) ==
    /\ pc[t] = "files"
    /\ p \in todo[t]
    /\ todo' = [todo EXCEPT ![t] = @ \ {p}]
    /\ mounted' = [mounted EXCEPT ![t] = @ \cup {p}]
    /\ order' = Append(order, p)
    /\ IF comp[p].live /\ comp[p].fp = Fingerprint(fs[p])
       THEN UNCHANGED <<rows, comp, writes, ran>>
       ELSE LET new == process_file(p, fs[p])
                old == comp[p].declared
            IN  /\ rows' = ApplyDeclared(rows, old, new)
                /\ comp' = [comp EXCEPT ![p] = [live |-> TRUE, fp |-> Fingerprint(fs[p]),
                                                declared |-> new]]
                /\ writes' = [upserts |-> writes.upserts + Upserts(old, new),
                              deletes |-> writes.deletes + Deletes(old, new)]
                /\ ran' = ran \cup {p}
    /\ UNCHANGED <<fs, indexDir, dbFile, tableExists, proc, pc, req, result, lockVars, conn,
                   sync, rowsAtBegin, cleanAtBegin, noIndexSeen, lastDone, afterCrash,
                   editedSince>>
    /\ UNCHANGED confVars

\* A variant in which no component is ever dropped.
UnmountedNone(t) == {}

\* The components that app_main did not mount again.
Unmounted(t) == { p \in TreePaths : comp[p].live /\ p \notin mounted[t] }

\* The rows kept when app_main ends: the rows of the components it dropped go.
SweepKeepsStaleRows(t) == rows

\* A variant that drops every row holding a text that a dropped component declared.
SweepDropsByContent(t) ==
    { r \in rows : r.content \notin { d.content : d \in UNION { comp[p].declared :
                                                               p \in Unmounted(t) } } }

Sweep(t) == { r \in rows : r.id \notin UNION { Ids(comp[p].declared) : p \in Unmounted(t) } }

\* indexer_app.update returns: the components no longer mounted are dropped with
\* their rows; _refresh_index leaves the lock; search goes on to the query.
PassFinish(t) ==
    /\ pc[t] = "files"
    /\ todo[t] = {}
    /\ rows' = Sweep(t)
    /\ comp' = [p \in TreePaths |-> IF p \in Unmounted(t) THEN NoComp ELSE comp[p]]
    /\ writes' = [writes EXCEPT !.deletes = @ + Cardinality(rows \ Sweep(t))]
    /\ sync' = TRUE
    /\ order' = <<>>
    /\ lastDone' = fs
    /\ mounted' = [mounted EXCEPT ![t] = {}]
    /\ lockHolder' = ReleasedBy(t)
    /\ pc' = [pc EXCEPT ![t] = CASE t = "cli" -> "stats"
                                 [] t = "bg"  -> "done"
                                 [] OTHER     -> "query"]
    /\ UNCHANGED <<fs, indexDir, dbFile, tableExists, proc, req, result, waiters, todo, conn,
                   rowsAtBegin, cleanAtBegin, noIndexSeen, ran, afterCrash,
                   editedSince>>
    /\ UNCHANGED confVars

\* The state of a process that is not running.
ProcessOff ==
    /\ proc' = "off"
    /\ pc' = [t \in Tasks |-> "idle"]
    /\ req' = [t \in Tasks |-> NoReq]
    /\ result' = [t \in Tasks |-> NoResult]
    /\ lockHolder' = NoTask
    /\ waiters' = <<>>
    /\ todo' = [t \in Tasks |-> {}]
    /\ mounted' = [t \in Tasks |-> {}]
    /\ conn' = FALSE
    /\ noIndexSeen' = FALSE
    /\ editedSince' = [t \in Tasks |-> {}]
    /\ config' = NoConfig
    /\ embedder' = NoEmbedder
    /\ lastCall' = NoCall
    /\ restored' = NoEmbedder

\* A variant in which a failing pass takes back the rows it wrote, while the
\* components keep what they recorded.
PassFailRollsBackRows(t, exc) ==
    /\ InPass(t)
    /\ IF t = "cli"
       THEN ProcessOff
       ELSE /\ lockHolder' = ReleasedBy(t)
            /\ pc' = [pc EXCEPT ![t] = "done"]
            /\ result' = [result EXCEPT ![t] = IF t \in SearchTasks THEN SearchFailed(exc)
                                                ELSE NoResult]
            /\ todo' = [todo EXCEPT ![t] = {}]
            /\ mounted' = [mounted EXCEPT ![t] = {}]
            /\ UNCHANGED <<proc, req, waiters, conn, noIndexSeen, editedSince, config,
                           embedder, lastCall, restored>>
    /\ UNCHANGED <<osVars, memo, loadVars>>
    /\ lastDone' = NoTree
    /\ rows' = rowsAtBegin
    /\ UNCHANGED <<fs, indexDir, dbFile, tableExists, comp, sync, rowsAtBegin, writes,
                   cleanAtBegin, ran, order, afterCrash>>

\* indexer_app.update raises: _refresh_index leaves the lock and the exception
\* reaches search's except branches; in the index command it ends the process.
PassFail(t, exc) ==
    /\ InPass(t)
    /\ IF t = "cli"
       THEN ProcessOff
       ELSE /\ lockHolder' = ReleasedBy(t)
            /\ pc' = [pc EXCEPT ![t] = "done"]
            /\ result' = [result EXCEPT ![t] = IF t \in SearchTasks THEN SearchFailed(exc)
                                                ELSE NoResult]
            /\ todo' = [todo EXCEPT ![t] = {}]
            /\ mounted' = [mounted EXCEPT ![t] = {}]
            /\ UNCHANGED <<proc, req, waiters, conn, noIndexSeen, editedSince, config,
                           embedder, lastCall, restored>>
    /\ UNCHANGED <<osVars, memo, loadVars>>
    /\ lastDone' = NoTree
    /\ UNCHANGED <<fs, storeVars, sync, rowsAtBegin, writes, cleanAtBegin, ran, order,
                   afterCrash>>

\* CodebaseQuerier._get_connection: what it raises, the connection and the file after it.
GetConnectionWithoutExistsCheck(c, db) == [raised |-> FALSE, conn |-> TRUE, db |-> TRUE]

GetConnection(c, db) ==
    IF ~c /\ ~db THEN [raised |-> TRUE, conn |-> c, db |-> db]
    ELSE [raised |-> FALSE, conn |-> TRUE, db |-> db]

\* query_codebase(query, limit, offset), which server.py imports from query.py and
\* query.py does not define: taken to pass its arguments to CodebaseQuerier.query
\* of one querier that the process keeps.
query_codebase(table, text, limit, offset) == query(table, text, limit, offset)

\* search from its query_codebase call to its return or except branch.  `fault` is
\* a failure of the embedding backend.
Query(t, fault) ==
    /\ proc = "serve"
    /\ pc[t] = "query"
    /\ LET g == GetConnection(conn, dbFile)
       IN  /\ conn' = g.conn
           /\ dbFile' = g.db
           /\ noIndexSeen' = (noIndexSeen \/ g.raised)
           /\ IF g.raised THEN result' = [result EXCEPT ![t] = SearchFailed(NoIndexError)]
              ELSE IF fault THEN result' = [result EXCEPT ![t] = SearchFailed(BackendError)]
              ELSE IF ~tableExists
                   THEN result' = [result EXCEPT ![t] = SearchFailed(NoTableError)]
              ELSE \E res \in query_codebase(rows, req[t].query, req[t].limit, req[t].offset) :
                       result' = [result EXCEPT ![t] = SearchOk(res, req[t].offset)]
    /\ pc' = [pc EXCEPT ![t] = "done"]
    /\ UNCHANGED <<fs, indexDir, tableExists, rows, comp, proc, req, lockVars, passVars,
                   sync, rowsAtBegin, writes, cleanAtBegin, ran, order, lastDone,
                   afterCrash, editedSince>>
    /\ UNCHANGED confVars

\* The response is sent; the task slot serves the next request.
Return(t) ==
    /\ proc = "serve"
    /\ t \in SearchTasks
    /\ pc[t] = "done"
    /\ pc' = [pc EXCEPT ![t] = "idle"]
    /\ req' = [req EXCEPT ![t] = NoReq]
    /\ result' = [result EXCEPT ![t] = NoResult]
    /\ editedSince' = [editedSince EXCEPT ![t] = {}]
    /\ UNCHANGED <<fs, storeVars, proc, lockVars, passVars, conn, sync, rowsAtBegin, writes,
                   cleanAtBegin, noIndexSeen, ran, order, lastDone, afterCrash>>
    /\ UNCHANGED confVars

\* _async_index after the update: _print_index_stats reads the table, and the
\* process ends.
IndexExit ==
    /\ proc = "index"
    /\ pc["cli"] = "stats"
    /\ ProcessOff
    /\ UNCHANGED <<fs, storeVars, sync, rowsAtBegin, writes, cleanAtBegin, ran, order,
                   lastDone, afterCrash>>
    /\ UNCHANGED <<osVars, memo, loadVars>>

\* The task of a search request is cancelled while it waits for the lock or runs
\* its pass: CancelledError leaves `async with _index_lock` (a waiter leaves the
\* queue, a holder releases the lock) and passes through search, whose except
\* branches catch Exception only; no response is sent.
Cancel(t) ==
    /\ proc = "serve"
    /\ t \in SearchTasks
    /\ pc[t] = "waiting" \/ InPass(t)
    /\ lockHolder' = ReleasedBy(t)
    /\ waiters' = SelectSeq(waiters, LAMBDA w : w # t)
    /\ pc' = [pc EXCEPT ![t] = "idle"]
    /\ req' = [req EXCEPT ![t] = NoReq]
    /\ result' = [result EXCEPT ![t] = NoResult]
    /\ todo' = [todo EXCEPT ![t] = {}]
    /\ mounted' = [mounted EXCEPT ![t] = {}]
    /\ editedSince' = [editedSince EXCEPT ![t] = {}]
    /\ lastDone' = IF InPass(t) THEN NoTree ELSE lastDone
    /\ UNCHANGED <<fs, storeVars, proc, conn, noIndexSeen, sync, rowsAtBegin, writes,
                   cleanAtBegin, ran, order, afterCrash>>
    /\ UNCHANGED confVars

\* The server process ends (its input closes or it is killed), whatever it was doing.
ServeStop ==
    /\ proc = "serve"
    /\ ProcessOff
    /\ lastDone' = IF PassesInProgress = {} THEN lastDone ELSE NoTree
    /\ UNCHANGED <<fs, storeVars, sync, rowsAtBegin, writes, cleanAtBegin, ran, order,
                   afterCrash>>
    /\ UNCHANGED <<osVars, memo, loadVars>>

(***************************************************************************)
(* Specifications.  Spec is the server and the index command over a small  *)
(* tree; SpecIndex is the index command, run again and again, over a tree  *)
(* with more kinds of content.                                             *)
(***************************************************************************)
ServeContents(p) ==
    CASE p = "a.py" -> {Absent, Text(<<"T1">>), Text(<<"T2">>)}
      [] OTHER      -> {Absent}

IndexContents(p) ==
    CASE p = "a.py"     -> {Absent, Binary, Text(<<"ws">>), Text(<<"T1">>), Text(<<"T2">>),
                            Text(<<"ws", "T1">>), Text(<<"T1", "T1">>), Text(<<"T1", "T2">>)}
      [] p = "lib/b.py" -> {Absent, Text(<<"T1">>), Text(<<"T3">>)}
      [] OTHER          -> {Text(<<"T1">>)}

ReqLimits == {2}
ReqOffsets == {0, 1}
ReqQueries == {"Q1"}
ToolNames == {"search", "update_index"}

PassStep(t) ==
    \/ UpdateBegin(t)
    \/ AppMain(t)
    \/ \E p \in TreePaths : ProcessFile(t, p)
    \/ PassFinish(t)
    \/ \E exc \in UpdateErrors : PassFail(t, exc)

Next ==
    \/ \E p \in TreePaths : \E c \in ServeContents(p) : EditFile(p, c)
    \/ StartServe
    \/ StartIndex
    \/ \E t \in SearchTasks, name \in ToolNames, q \in ReqQueries, lim \in ReqLimits,
          off \in ReqOffsets, refresh \in BOOLEAN : CallTool(t, name, q, lim, off, refresh)
    \/ \E t \in Tasks : Wake(t)
    \/ \E t \in Tasks : PassStep(t)
    \/ \E t \in SearchTasks, fault \in BOOLEAN : Query(t, fault)
    \/ \E t \in SearchTasks : Return(t)
    \/ \E t \in SearchTasks : Cancel(t)
    \/ IndexExit
    \/ ServeStop

Spec == Init /\ [][Next]_vars

NextIndex ==
    \/ \E p \in TreePaths : \E c \in IndexContents(p) : EditFile(p, c)
    \/ StartIndex
    \/ PassStep("cli")
    \/ IndexExit

\* The tree before the first run: the files the model never edits are there.
InitIndex ==
    /\ fs = [p \in TreePaths |-> IF p \in {"a.py", "lib/b.py"} THEN Absent
                                  ELSE Text(<<"T1">>)]
    /\ indexDir = FALSE
    /\ dbFile = FALSE
    /\ tableExists = FALSE
    /\ rows = {}
    /\ comp = [p \in TreePaths |-> NoComp]
    /\ proc = "off"
    /\ pc = [t \in Tasks |-> "idle"]
    /\ req = [t \in Tasks |-> NoReq]
    /\ result = [t \in Tasks |-> NoResult]
    /\ lockHolder = NoTask
    /\ waiters = <<>>
    /\ todo = [t \in Tasks |-> {}]
    /\ mounted = [t \in Tasks |-> {}]
    /\ conn = FALSE
    /\ sync = FALSE
    /\ rowsAtBegin = {}
    /\ writes = NoWrites
    /\ cleanAtBegin = FALSE
    /\ noIndexSeen = FALSE
    /\ ran = {}
    /\ order = <<>>
    /\ afterCrash = "no"
    /\ editedSince = [t \in Tasks |-> {}]
    /\ lastDone = NoTree
    /\ ThreadsIdle
    /\ OsDefault
    /\ ConfStopped
    /\ memo = {}

SpecIndex == InitIndex /\ [][NextIndex]_vars


(***************************************************************************)
(* SpecQuery: a server whose startup refresh has completed over some tree, *)
(* answering search requests that do not refresh.                          *)
(***************************************************************************)
MaxLimit == 3
MaxOffset == 3
QueryTexts == {"Q1", "Q2", "T1"}

IndexTrees ==
    { tree \in [TreePaths -> UNION { IndexContents(p) : p \in TreePaths }] :
        \A p \in TreePaths : tree[p] \in IndexContents(p) }

\* The rows a pass over `tree` declares, file by file.
ExpectedRows(tree) == UNION { process_file(p, tree[p]) : p \in Walk(tree) }

\* The models the server of SpecQuery is started with: the default, and one of
\* _QUERY_PROMPT_MODELS.
QueryModels == { NotSet, SetTo(<<"sbert/", "nomic-ai/", "CodeRankEmbed">>) }

InitQuery ==
    /\ fs \in IndexTrees
    /\ indexDir = TRUE
    /\ dbFile = TRUE
    /\ tableExists = TRUE
    /\ rows = ExpectedRows(fs)
    /\ comp = [p \in TreePaths |->
                 IF p \in Walk(fs)
                 THEN [live |-> TRUE, fp |-> Fingerprint(fs[p]),
                       declared |-> process_file(p, fs[p])]
                 ELSE NoComp]
    /\ proc = "serve"
    /\ pc = [t \in Tasks |-> IF t = "bg" THEN "done" ELSE "idle"]
    /\ req = [t \in Tasks |-> NoReq]
    /\ result = [t \in Tasks |-> NoResult]
    /\ lockHolder = NoTask
    /\ waiters = <<>>
    /\ todo = [t \in Tasks |-> {}]
    /\ mounted = [t \in Tasks |-> {}]
    /\ conn = FALSE
    /\ sync = TRUE
    /\ rowsAtBegin = {}
    /\ writes = [upserts |-> Cardinality(rows), deletes |-> 0]
    /\ cleanAtBegin = FALSE
    /\ noIndexSeen = FALSE
    /\ ran = Walk(fs)
    /\ order = <<>>
    /\ afterCrash = "no"
    /\ editedSince = [t \in Tasks |-> {}]
    /\ lastDone = fs
    /\ ThreadsIdle
    /\ env \in { [v \in EnvVars |-> IF v = "COCOINDEX_CODE_EMBEDDING_MODEL" THEN m ELSE NotSet] :
                    m \in QueryModels }
    /\ cwd = DirAt(1)
    /\ marks = [d \in ChainDirs |-> IF d = DirAt(1) THEN {IndexMarker} ELSE {}]
    /\ torch = "missing"
    /\ config = from_env(env, marks, cwd, torch)
    /\ embedder = shared_embedder(config)
    /\ memo = {}
    /\ lastCall = NoCall
    /\ restored = NoEmbedder

NextQuery ==
    \/ \E q \in QueryTexts, lim \in 1..MaxLimit, off \in 0..MaxOffset :
          CallTool("s1", "search", q, lim, off, FALSE)
    \/ \E fault \in BOOLEAN : Query("s1", fault)
    \/ Return("s1")

SpecQuery == InitQuery /\ [][NextQuery]_vars

(***************************************************************************)
(* SpecConfig: processes started over a one-file tree in many environments.*)
(* Either the root override, the working directory and the markers vary,   *)
(* or the model, device, trust and batch-size variables and torch do.      *)
(***************************************************************************)
MarkSets == { {}, {IndexMarker}, {".git"}, {IndexMarker, ".git"}, {"go.mod"} }

RootValues ==
    { NotSet, SetTo(<<>>), SetTo(<<"/", "opt">>), SetTo(<<".">>), SetTo(<<"/", "proj">>) }

MiniLM == <<"sbert/", "sentence-transformers/", "all-MiniLM-L6-v2">>

ModelValues ==
    { NotSet, SetTo(<<>>), SetTo(MiniLM), SetTo(<<"sbert/", "nomic-ai/", "CodeRankEmbed">>),
      SetTo(<<"sbert/", "nomic-ai/", "nomic-embed-code">>),
      SetTo(<<"text-embedding-3-small">>), SetTo(<<"openai/", "sbert/", "small">>) }

DeviceValues == { NotSet, SetTo(<<>>), SetTo(<<"cpu">>), SetTo(<<"mps">>) }

TrustValues ==
    { NotSet, SetTo(<<>>), SetTo(<<"1">>), SetTo(<<"TRUE">>), SetTo(<<"Yes">>),
      SetTo(<<"no">>), SetTo(<<"2">>) }

BatchValues == { NotSet, SetTo(<<"2">>), SetTo(<<"32">>) }

TorchValues == { "missing", "cuda", "nocuda" }

TreeNotIndexed ==
    /\ fs = [p \in TreePaths |-> IF p = "a.py" THEN Text(<<"T1">>) ELSE Absent]
    /\ indexDir = FALSE
    /\ dbFile = FALSE
    /\ tableExists = FALSE
    /\ rows = {}
    /\ comp = [p \in TreePaths |-> NoComp]
    /\ proc = "off"
    /\ pc = [t \in Tasks |-> "idle"]
    /\ req = [t \in Tasks |-> NoReq]
    /\ result = [t \in Tasks |-> NoResult]
    /\ lockHolder = NoTask
    /\ waiters = <<>>
    /\ todo = [t \in Tasks |-> {}]
    /\ mounted = [t \in Tasks |-> {}]
    /\ conn = FALSE
    /\ sync = FALSE
    /\ rowsAtBegin = {}
    /\ writes = NoWrites
    /\ cleanAtBegin = FALSE
    /\ noIndexSeen = FALSE
    /\ ran = {}
    /\ order = <<>>
    /\ afterCrash = "no"
    /\ editedSince = [t \in Tasks |-> {}]
    /\ lastDone = NoTree
    /\ ThreadsIdle

NothingIndexed ==
    /\ TreeNotIndexed
    /\ ConfStopped
    /\ memo = {}

InitConfig ==
    /\ NothingIndexed
    /\ \/ /\ env \in { e \in [EnvVars -> RootValues] :
                          \A v \in EnvVars \ {"COCOINDEX_CODE_ROOT_PATH"} : e[v] = NotSet }
          /\ cwd \in ChainDirs
          /\ marks \in [ChainDirs -> MarkSets]
          /\ torch = "missing"
       \/ /\ env \in { e \in [EnvVars -> ModelValues \cup DeviceValues \cup TrustValues
                                             \cup BatchValues] :
                          /\ e["COCOINDEX_CODE_ROOT_PATH"] = NotSet
                          /\ e["COCOINDEX_CODE_EMBEDDING_MODEL"] \in ModelValues
                          /\ e["COCOINDEX_CODE_DEVICE"] \in DeviceValues
                          /\ e["COCOINDEX_CODE_TRUST_REMOTE_CODE"] \in TrustValues
                          /\ e["COCOINDEX_CODE_BATCH_SIZE"] \in BatchValues }
          /\ cwd = DirAt(1)
          /\ marks = [d \in ChainDirs |-> {}]
          /\ torch \in TorchValues

NextConfig ==
    \/ StartServe
    \/ StartIndex
    \/ \E t \in {"cli", "bg"} : PassStep(t)
    \/ IndexExit
    \/ ServeStop

SpecConfig == InitConfig /\ [][NextConfig]_vars

(***************************************************************************)
(* SpecEmbed is the LocalEmbedder class on its own, the way                *)
(* tests/test_embedder.py uses it: embedders are constructed directly, so  *)
(* that each of the five fields varies, embed is called through the        *)
(* memoising and batching wrapper, and the embedder is pickled for the     *)
(* runner.  The memo outlives an embedder object.                          *)
(***************************************************************************)
MaxMemo == 3

EmbedTexts == {"T1", "T2"}

\* The five attributes __init__ sets from its arguments.
Fields(e) ==
    [model_name_or_path |-> e.model_name_or_path, device |-> e.device,
     trust_remote_code |-> e.trust_remote_code,
     normalize_embeddings |-> e.normalize_embeddings,
     query_prompt_name |-> e.query_prompt_name]

\* An embedder and the ones that differ from it in one argument.
EmbedderObjects ==
    { LocalEmbedder(<<"model-a">>, <<"cpu">>, FALSE, TRUE, None),
      LocalEmbedder(<<"model-b">>, <<"cpu">>, FALSE, TRUE, None),
      LocalEmbedder(<<"model-a">>, <<"cuda">>, FALSE, TRUE, None),
      LocalEmbedder(<<"model-a">>, <<"cpu">>, TRUE, TRUE, None),
      LocalEmbedder(<<"model-a">>, <<"cpu">>, FALSE, FALSE, None),
      LocalEmbedder(<<"model-a">>, <<"cpu">>, FALSE, TRUE, "query") }

InitEmbed ==
    /\ TreeNotIndexed
    /\ OsDefault
    /\ config = NoConfig
    /\ embedder \in EmbedderObjects
    /\ memo = {}
    /\ lastCall = NoCall
    /\ restored = NoEmbedder

embedRest == <<fs, storeVars, proc, pc, req, result, lockVars, passVars, conn, histVars,
               osVars, config, loadVars>>

\* Another LocalEmbedder(...) takes the place of the current one.
Construct(e) ==
    /\ embedder.kind = "local"
    /\ e # embedder
    /\ embedder' = e
    /\ lastCall' = NoCall
    /\ restored' = NoEmbedder
    /\ UNCHANGED <<memo, embedRest>>

\* The memo entries that answer embedder e for the texts.
MemoHits(e, texts) == { m \in memo : m.key = MemoKey(e) /\ m.text \in texts }

\* embed, called for a set of texts: memo=True answers the texts it has under the
\* embedder's memo key; batching=True hands the others, at most max_batch_size at a
\* time, to the function body, which loads the model on first use and encodes them.
EmbedCall(texts) ==
    LET hits   == MemoHits(embedder, texts)
        misses == texts \ { m.text : m \in hits }
    IN  /\ embedder.kind = "local"
        /\ texts # {}
        /\ Cardinality(misses) <= max_batch_size
        /\ Cardinality(memo) + Cardinality(misses) <= MaxMemo
        /\ embedder' = IF misses = {} THEN embedder
                       ELSE [embedder EXCEPT !.model = GetModel(embedder)]
        /\ memo' = memo \cup { [key |-> MemoKey(embedder), text |-> x,
                                by |-> Fields(embedder)] : x \in misses }
        /\ lastCall' = [asked |-> texts, encoded |-> misses, from |-> hits]
        /\ UNCHANGED <<restored, embedRest>>

\* pickle.loads(pickle.dumps(embedder))
Pickle ==
    /\ embedder.kind = "local"
    /\ restored' = SetState(GetState(embedder))
    /\ UNCHANGED <<embedder, memo, lastCall, embedRest>>

NextEmbed ==
    \/ \E e \in EmbedderObjects : Construct(e)
    \/ \E texts \in SUBSET EmbedTexts : EmbedCall(texts)
    \/ Pickle

SpecEmbed == InitEmbed /\ [][NextEmbed]_vars

(***************************************************************************)
(* SpecLoad: threads of the runner calling embed, embed_query and the      *)
(* schema query of one LocalEmbedder, each of which begins with            *)
(* _get_model.  A step is what a thread does between two points at which   *)
(* another thread can run.                                                 *)
(***************************************************************************)
loadRest == <<fs, storeVars, proc, pc, req, result, lockVars, passVars, conn, histVars,
              osVars, config, memo, lastCall, restored>>

InitLoad ==
    /\ TreeNotIndexed
    /\ OsDefault
    /\ config = NoConfig
    /\ embedder \in EmbedderObjects
    /\ memo = {}
    /\ lastCall = NoCall
    /\ restored = NoEmbedder

At(t, where) == [threads EXCEPT ![t].at = where]

\* A thread calls one of the functions that use the model.
Enter(t, fn) ==
    /\ threads[t].at = "idle"
    /\ threads' = [threads EXCEPT ![t] = [NotCalling EXCEPT !.at = "check1", !.fn = fn]]
    /\ UNCHANGED <<embedder, modelLock, loads, loadRest>>

\* `if self._model is None:` outside the lock.
Check1(t) ==
    /\ threads[t].at = "check1"
    /\ threads' = At(t, IF embedder.model.loaded THEN "return" ELSE "acquire")
    /\ UNCHANGED <<embedder, modelLock, loads, loadRest>>

\* A variant in which the lock does not keep a second thread out.
AcquireWithoutWaiting(t) ==
    /\ threads[t].at = "acquire"
    /\ modelLock' = t
    /\ threads' = At(t, "check2")
    /\ UNCHANGED <<embedder, loads, loadRest>>

\* `with self._lock:` -- entered once no other thread holds the lock.
Acquire(t) ==
    /\ threads[t].at = "acquire"
    /\ modelLock = NoThread
    /\ modelLock' = t
    /\ threads' = At(t, "check2")
    /\ UNCHANGED <<embedder, loads, loadRest>>

\* `if self._model is None:` under the lock.
Check2(t) ==
    /\ threads[t].at = "check2"
    /\ threads' = At(t, IF embedder.model.loaded THEN "release" ELSE "construct")
    /\ UNCHANGED <<embedder, modelLock, loads, loadRest>>

\* SentenceTransformer(...) is called; while it runs _model is still None.
CallConstructor(t) ==
    /\ threads[t].at = "construct"
    /\ loads' = [loads EXCEPT !.count = @ + 1]
    /\ threads' = [threads EXCEPT ![t].at = "assign", ![t].got.serial = loads.count + 1]
    /\ UNCHANGED <<embedder, modelLock, loadRest>>

\* The constructor returns and `self._model = ...` stores the finished model.
Assign(t) ==
    /\ threads[t].at = "assign"
    /\ embedder' = [embedder EXCEPT !.model =
                       SentenceTransformer(embedder.model_name_or_path, embedder.device,
                                           embedder.trust_remote_code)]
    /\ loads' = [loads EXCEPT !.current = threads[t].got.serial]
    /\ threads' = [threads EXCEPT ![t].at = "release", ![t].got.serial = 0]
    /\ UNCHANGED <<modelLock, loadRest>>

\* The end of the `with` block.
Release(t) ==
    /\ threads[t].at = "release"
    /\ modelLock' = IF modelLock = t THEN NoThread ELSE modelLock
    /\ threads' = At(t, "return")
    /\ UNCHANGED <<embedder, loads, loadRest>>

\* `return self._model`: the caller has its model and goes on with it.
ReturnModel(t) ==
    /\ threads[t].at = "return"
    /\ threads' = [threads EXCEPT ![t].at = "idle",
                                  ![t].got = [serial |-> loads.current,
                                              model |-> embedder.model]]
    /\ UNCHANGED <<embedder, modelLock, loads, loadRest>>

NextLoad ==
    \/ \E t \in Threads, fn \in ModelUsers : Enter(t, fn)
    \/ \E t \in Threads : Check1(t)
    \/ \E t \in Threads : Acquire(t)
    \/ \E t \in Threads : Check2(t)
    \/ \E t \in Threads : CallConstructor(t)
    \/ \E t \in Threads : Assign(t)
    \/ \E t \in Threads : Release(t)
    \/ \E t \in Threads : ReturnModel(t)

SpecLoad == InitLoad /\ [][NextLoad]_vars

(***************************************************************************)
(* Properties.                                                             *)
(***************************************************************************)

\* C1: after every pass that completes, with the tree unchanged since it began, the
\* ids in code_chunks are exactly the ids of the chunks of the files that pass the
\* filter and are readable and not blank: none is missing and none is stale.
C1_RowIdsMatchTree == sync => Ids(rows) = Ids(ExpectedRows(fs))

\* C1's case: a pass that both removed a stale row and added a new one.
C1_Witness ==
    /\ sync
    /\ Ids(rowsAtBegin) \ Ids(rows) # {}
    /\ Ids(rows) \ Ids(rowsAtBegin) # {}

\* C2: a pass that follows a completed pass with no change of the tree in between
\* issues no upsert and no delete and leaves the table as it found it.
C2_SecondPassWritesNothing ==
    (sync /\ cleanAtBegin) => (writes = NoWrites /\ rows = rowsAtBegin)

\* C2's case: a second pass in a row over a tree with indexed chunks has completed.
C2_Witness == sync /\ cleanAtBegin /\ Cardinality(rows) >= 3

\* C3: after an indexed file is deleted and a pass has run, no row has that file as
\* its file_path, and no query, whatever its text, limit and offset, returns one.
C3_NoRowOfDeletedFile ==
    sync =>
      /\ \A r \in rows : fs[r.file_path] # Absent
      /\ \A q \in QueryTexts, lim \in 1..MaxLimit, off \in 0..MaxOffset :
           \A res \in query(rows, q, lim, off) :
             \A i \in 1..Len(res) : fs[res[i].file_path] # Absent

\* C3's case: the pass began with a row of a file that is deleted now.
C3_Witness == sync /\ \E r \in rowsAtBegin : fs[r.file_path] = Absent

\* The chunks of the files the walk yields, as (file, text, first line).
CurrentChunks ==
    UNION { { <<p, ch.text, ch.start_line>> :
                ch \in { Split(fs[p].toks)[k] : k \in 1..Len(Split(fs[p].toks)) } } :
            p \in { x \in Walk(fs) : fs[x].kind = "text" } }

\* C4: after a file is added or its content replaced and a pass has run, the table
\* holds exactly one row for every chunk of the current content, a query can return
\* each of them, and no row carries a text that no current file produces.
C4_RowsFollowContent ==
    sync =>
      /\ \A ch \in CurrentChunks :
           Cardinality({ r \in rows : <<r.file_path, r.content, r.start_line>> = ch }) = 1
      /\ \A r \in rows : <<r.file_path, r.content, r.start_line>> \in CurrentChunks
      /\ \A r \in rows : \E off \in 0..(Cardinality(rows) - 1) :
           \E res \in query(rows, "Q1", 1, off) :
             /\ Len(res) = 1
             /\ res[1].file_path = r.file_path
             /\ res[1].content = r.content
             /\ res[1].start_line = r.start_line

\* C4's case: a file's content was replaced, and the text it had produced before is
\* produced by no file any more.
C4_Witness ==
    /\ sync
    /\ \E old \in rowsAtBegin, new \in rows :
         /\ old.file_path = new.file_path
         /\ old.content # new.content
         /\ \A r \in rows : r.content # old.content

\* The number of earlier chunks of the same file with the same text.
Occurrence(r, table) ==
    Cardinality({ x \in table : /\ x.file_path = r.file_path
                                /\ x.content = r.content
                                /\ x.start_line < r.start_line })

Key(r, table) == <<r.file_path, r.content, Occurrence(r, table)>>

C6_OnePassAtATime ==
    /\ Cardinality(PassesInProgress) <= 1
    /\ \A t \in Tasks : (proc = "serve" /\ InPass(t)) => lockHolder = t
    /\ \A t \in Tasks : pc[t] = "waiting" <=> (\E i \in 1..Len(waiters) : waiters[i] = t)

\* C6's case: a pass is running while two requesters wait for it.
C6_Witness ==
    /\ Cardinality(PassesInProgress) = 1
    /\ Len(waiters) = 2

\* C7 as stated: every call of one of the tools update_index and search is answered
\* with a result envelope, and an envelope of a failure has a message, no results
\* and total_returned = 0.
C7_EveryToolCallGetsEnvelope ==
    \A t \in SearchTasks :
      (pc[t] = "done" /\ req[t].tool \in {"update_index", "search"}) =>
        /\ result[t].kind = "envelope"
        /\ ~result[t].success =>
             /\ result[t].message # ""
             /\ result[t].results = <<>>
             /\ result[t].total_returned = 0

\* The part of C7 that is about search: a search call that has ended, through its
\* return or through either except branch, carries such an envelope.
SearchAnswersWithEnvelope ==
    \A t \in SearchTasks :
      (pc[t] = "done" /\ req[t].tool = "search") =>
        /\ result[t].kind = "envelope"
        /\ ~result[t].success =>
             /\ result[t].message # ""
             /\ result[t].results = <<>>
             /\ result[t].total_returned = 0

\* C8: a query made while target_sqlite.db does not exist ends as a failure that
\* names the missing index and changes neither the store nor the querier; a query
\* made once the table is there succeeds unless the embedding backend fails.
C8_QueryBeforeIndexIsRefused ==
    [][\A t \in SearchTasks :
         (proc = "serve" /\ pc[t] = "query" /\ pc'[t] = "done") =>
           IF ~dbFile
           THEN /\ result'[t] = SearchFailed(NoIndexError)
                /\ ~result'[t].success
                /\ result'[t].message = "Index database not found"
                /\ UNCHANGED <<fs, storeVars, conn, lockVars>>
           ELSE tableExists =>
                  \/ result'[t].success
                  \/ result'[t] = SearchFailed(BackendError)]_vars

\* C8's case: in this server process a query was refused for want of an index, and
\* a later one, after a pass, has returned chunks.
C8_Witness ==
    /\ noIndexSeen
    /\ \E t \in SearchTasks :
         pc[t] = "done" /\ result[t].success /\ result[t].total_returned >= 1

Dist(r, q) == vec_distance_cosine(r.embedding, Embed(q))

\* Result x is stored row r as the query with text q presents it.
Presents(x, r, q) ==
    /\ x.file_path = r.file_path
    /\ x.language = r.language
    /\ x.content = r.content
    /\ x.start_line = r.start_line
    /\ x.end_line = r.end_line
    /\ x.score = Norm2 - Dist(r, q)

\* res holds positions off+1 .. off+lim (counted from 1) of the stored rows in an
\* order of ascending distance to q: as many as are there, each a different row, and
\* the i-th of them has at most off+i-1 rows strictly closer than it and at least
\* off+i rows at least as close.
IsSlice(res, table, q, lim, off) ==
    /\ Len(res) <= lim
    /\ Len(res) = IF Cardinality(table) - off < 0 THEN 0
                  ELSE IF Cardinality(table) - off < lim THEN Cardinality(table) - off
                  ELSE lim
    /\ \A i, j \in 1..Len(res) : i < j => (res[i].score >= res[j].score /\ res[i] # res[j])
    /\ \A i \in 1..Len(res) :
         \E r \in table :
           /\ Presents(res[i], r, q)
           /\ Cardinality({ x \in table : Dist(x, q) < Dist(r, q) }) <= off + i - 1
           /\ Cardinality({ x \in table : Dist(x, q) <= Dist(r, q) }) >= off + i

DistinctDistances(table, q) ==
    \A r1, r2 \in table : r1 # r2 => Dist(r1, q) # Dist(r2, q)

Page(table, q, lim, k) == CHOOSE res \in query(table, q, lim, k * lim) : TRUE

\* The pages of size lim, one after the other, show every stored row exactly once.
PagesCoverOnce(table, q, lim) ==
    \A r \in table :
      Cardinality({ ki \in (0..Cardinality(table)) \X (1..lim) :
                      /\ ki[2] <= Len(Page(table, q, lim, ki[1]))
                      /\ Presents(Page(table, q, lim, ki[1])[ki[2]], r, q) }) = 1

\* C9: a query with a limit and an offset returns the rows at positions offset to
\* offset+limit-1 of the stored rows ordered by ascending cosine distance to the
\* query: at most limit of them, scores (1 - distance) not increasing; and when the
\* distances are all different, successive pages neither skip nor repeat a row.
C9_QueryReturnsOrderedSlice ==
    /\ \A t \in SearchTasks :
         (pc[t] = "done" /\ result[t].success) =>
           /\ IsSlice(result[t].results, rows, req[t].query, req[t].limit, req[t].offset)
           /\ result[t].total_returned = Len(result[t].results)
           /\ result[t].offset = req[t].offset
    /\ \A q \in QueryTexts, lim \in 1..MaxLimit, off \in 0..MaxOffset :
         \A res \in query(rows, q, lim, off) : IsSlice(res, rows, q, lim, off)
    /\ \A q \in QueryTexts, lim \in 1..MaxLimit :
         DistinctDistances(rows, q) => PagesCoverOnce(rows, q, lim)

\* C9's case: a search with a positive offset has returned two rows out of a store
\* of at least three rows, all at different distances from the query.
C9_Witness ==
    /\ pc["s1"] = "done"
    /\ result["s1"].success
    /\ req["s1"].offset >= 1
    /\ Len(result["s1"].results) >= 2
    /\ Cardinality(rows) >= 3
    /\ DistinctDistances(rows, req["s1"].query)

\* The name of directory d: its tokens after the last "/".
RECURSIVE LastComponent(_)
LastComponent(d) ==
    IF \E i \in 1..Len(d) : d[i] = "/"
    THEN LastComponent(Tail(d))
    ELSE d

DependencyOrBuildDirs ==
    { <<"__pycache__">>, <<"node_modules">>, <<"target">>, <<"dist">>, <<"build">>,
      <<"vendor">> }

\* Path p lies in a hidden directory (the index directory .cocoindex_code is one)
\* or in a dependency, build or vendor directory, at any depth.
InKeptOutDirectory(p) ==
    \E d \in DirsOf(PathTokens(p)) :
      \/ Head(LastComponent(d)) = "."
      \/ LastComponent(d) \in DependencyOrBuildDirs

\* C10 as stated: after a pass a file has rows only if it matches an include
\* pattern and no exclude pattern, every readable file with text that does so has
\* rows, and no file in a hidden, dependency, build, vendor or index directory has
\* a row.
C10_FilterDecidesIndexing ==
    sync =>
      \A p \in TreePaths :
        LET indexed == \E r \in rows : r.file_path = p
        IN  /\ indexed => IsFileIncluded(PathTokens(p))
            /\ (IsFileIncluded(PathTokens(p)) /\ process_file(p, fs[p]) # {}) => indexed
            /\ indexed => ~InKeptOutDirectory(p)

\* The first half of C10 alone: who has rows after a pass is decided by the patterns.
PatternsDecideIndexing ==
    sync =>
      \A p \in TreePaths :
        (\E r \in rows : r.file_path = p)
          <=> (IsFileIncluded(PathTokens(p)) /\ process_file(p, fs[p]) # {})

\* A content that cannot be decoded, or that is blank once stripped.
Unusable(c) == c.kind = "binary" \/ (c.kind = "text" /\ Strip(c.toks) = <<>>)

\* C11: a file that cannot be decoded or is blank has no row after a pass, and the
\* table is then what it would be were the file absent; the step that processes
\* such a file leaves the pass running and the rows of the other files alone.
C11_UnusableFileGivesNoRows ==
    /\ [](sync =>
            \A p \in TreePaths :
              Unusable(fs[p]) =>
                /\ \A r \in rows : r.file_path # p
                /\ rows = ExpectedRows([fs EXCEPT ![p] = Absent]))
    /\ [][\A t \in Tasks, p \in TreePaths :
            (pc[t] = "files" /\ p \in mounted'[t] \ mounted[t] /\ Unusable(fs[p])) =>
              /\ pc'[t] = "files"
              /\ \A r \in rows' : r.file_path # p
              /\ { r \in rows' : r.file_path # p } = { r \in rows : r.file_path # p }]_vars

\* C11's case: a file that had rows became undecodable, and a pass has completed
\* with the rows of the other files in place.
C11_Witness ==
    /\ sync
    /\ fs["a.py"] = Binary
    /\ \E r \in rowsAtBegin : r.file_path = "a.py"
    /\ \E r \in rows : r.file_path = "lib/b.py"

\* The files whose content differs from what the last completed pass saw.
ChangedSinceLastPass == { p \in TreePaths : fs[p] # lastDone[p] }

RowsDiffer(a, b) == (a \ b) \cup (b \ a)

\* C12: in a pass that follows a completed pass, process_file (chunking and
\* embedding) runs only on files whose content changed in between, every row
\* written or deleted so far belongs to such a file, and so does every row in which
\* the table differs once the pass completes.
C12_UnchangedFilesAreLeftAlone ==
    /\ [](\A t \in Tasks :
            (pc[t] = "files" /\ lastDone # NoTree) =>
              /\ ran \subseteq ChangedSinceLastPass
              /\ \A r \in RowsDiffer(rows, rowsAtBegin) : r.file_path \in ChangedSinceLastPass)
    /\ [][(~sync /\ sync' /\ lastDone # NoTree) =>
            \A r \in RowsDiffer(rows', rowsAtBegin) : r.file_path \in ChangedSinceLastPass]_vars

\* C12's case: a pass after a completed one has mounted every file; it ran
\* process_file on a changed file and passed over an unchanged file that has rows.
C12_Witness ==
    /\ pc["cli"] = "files"
    /\ todo["cli"] = {}
    /\ lastDone # NoTree
    /\ ran # {}
    /\ \E p \in mounted["cli"] \ ran :
         /\ fs[p] = lastDone[p]
         /\ \E r \in rows : r.file_path = p

\* The directories from "/" down to d, d included.
Ancestors(d) == { SubSeq(d, 1, k) : k \in 0..Len(d) }

Nearest(ds) == CHOOSE x \in ds : \A y \in ds : Len(y) <= Len(x)

WithIndexMarker(d) == { a \in Ancestors(d) : IndexMarker \in marks[a] }

WithProjectMarker(d) == { a \in Ancestors(d) : marks[a] \cap ProjectMarkers # {} }

\* What C13 says discovery from directory d returns.
NearestMarkedRoot(d) ==
    IF WithIndexMarker(d) # {} THEN Nearest(WithIndexMarker(d))
    ELSE IF WithProjectMarker(d) # {} THEN Nearest(WithProjectMarker(d))
    ELSE d

\* C13: discovery from a directory returns its nearest ancestor (itself included)
\* that holds .cocoindex_code if there is one, whatever project markers lie nearer;
\* else the nearest ancestor that holds a project marker; else the directory
\* itself.  The result is always the directory or one of its ancestors.  A process
\* started with no root override has that directory as its root.
C13_RootDiscovery ==
    /\ \A d \in ChainDirs :
         /\ _discover_codebase_root(marks, d) = NearestMarkedRoot(d)
         /\ _discover_codebase_root(marks, d) \in Ancestors(d)
    /\ (config.made /\ ~EnvTruthy(env, "COCOINDEX_CODE_ROOT_PATH")) =>
         config.codebase_root_path = NearestMarkedRoot(cwd)

\* C13's case: a process started below a directory with a project marker, which
\* lies below a directory with the index marker, and took the latter as root.
C13_Witness ==
    /\ config.made
    /\ env["COCOINDEX_CODE_ROOT_PATH"] = NotSet
    /\ WithIndexMarker(cwd) # {}
    /\ \E a \in WithProjectMarker(cwd) : Len(a) > Len(Nearest(WithIndexMarker(cwd)))
    /\ config.codebase_root_path = Nearest(WithIndexMarker(cwd))
    /\ config.codebase_root_path # cwd

\* The directory a value of COCOINDEX_CODE_ROOT_PATH names.
OverrideDir(v) ==
    CASE v = <<"/", "opt">>  -> <<"opt">>
      [] v = <<"/", "proj">> -> <<"proj">>
      [] v = <<".">>         -> cwd

IsUnder(path, d) == Len(path) > Len(d) /\ SubSeq(path, 1, Len(d)) = d

\* C14: when COCOINDEX_CODE_ROOT_PATH is set (to a non-empty value) the root of the
\* configuration is the directory it names, whatever markers lie above the working
\* directory; and the index directory is <root>/.cocoindex_code with both database
\* files in it, override or not.
C14_RootOverride ==
    config.made =>
      /\ EnvTruthy(env, "COCOINDEX_CODE_ROOT_PATH") =>
           config.codebase_root_path = OverrideDir(env["COCOINDEX_CODE_ROOT_PATH"].val)
      /\ config.index_dir = config.codebase_root_path \o <<".cocoindex_code">>
      /\ IsUnder(config.index_dir, config.codebase_root_path)
      /\ IsUnder(target_sqlite_db_path(config), config.index_dir)
      /\ IsUnder(cocoindex_db_path(config), config.index_dir)
      /\ target_sqlite_db_path(config) # cocoindex_db_path(config)

\* C14's case: a process started with the override naming a directory outside the
\* working directory's ancestors, while an ancestor holds the index marker.
C14_Witness ==
    /\ config.made
    /\ env["COCOINDEX_CODE_ROOT_PATH"] = SetTo(<<"/", "opt">>)
    /\ WithIndexMarker(cwd) # {}
    /\ config.codebase_root_path = <<"opt">>

\* C15: the device is the value of COCOINDEX_CODE_DEVICE when that is set (to a
\* non-empty value), whatever the probe says; otherwise "cuda" when torch reports
\* an accelerator and "cpu" when it does not or cannot be imported.
C15_DeviceSelection ==
    /\ \A probe \in TorchValues :
         _detect_device(env, probe) =
           IF EnvTruthy(env, "COCOINDEX_CODE_DEVICE") THEN env["COCOINDEX_CODE_DEVICE"].val
           ELSE IF probe = "cuda" THEN <<"cuda">> ELSE <<"cpu">>
    /\ config.made =>
         config.device =
           IF EnvTruthy(env, "COCOINDEX_CODE_DEVICE") THEN env["COCOINDEX_CODE_DEVICE"].val
           ELSE IF torch = "cuda" THEN <<"cuda">> ELSE <<"cpu">>

\* C15's case: a process started with the override "cpu" while the accelerator is
\* available, and its device is "cpu".
C15_Witness ==
    /\ config.made
    /\ env["COCOINDEX_CODE_DEVICE"] = SetTo(<<"cpu">>)
    /\ torch = "cuda"
    /\ config.device = <<"cpu">>

OptedIn(e) ==
    /\ e["COCOINDEX_CODE_TRUST_REMOTE_CODE"].set
    /\ e["COCOINDEX_CODE_TRUST_REMOTE_CODE"].val
         \in { <<"1">>, <<"true">>, <<"TRUE">>, <<"True">>, <<"yes">>, <<"Yes">> }

\* C16 as stated: Config.trust_remote_code is true exactly when the variable
\* COCOINDEX_CODE_TRUST_REMOTE_CODE is "1", "true" or "yes" in any letter case, and
\* a local embedder has trust_remote_code=true only then, whatever the model.
C16_TrustIsOptInOnly ==
    config.made =>
      /\ config.trust_remote_code <=> OptedIn(env)
      /\ embedder.kind = "local" => (embedder.trust_remote_code => config.trust_remote_code)

\* The part of C16 that is about Config alone.
ConfigTrustFollowsEnv == config.made => (config.trust_remote_code <=> OptedIn(env))

\* int(s) for the values of COCOINDEX_CODE_BATCH_SIZE in the model.
ToInt(v) == CASE v = <<"2">> -> 2 [] v = <<"32">> -> 32 [] OTHER -> 0

\* C17 as stated: the configuration has a batch size, 16 when
\* COCOINDEX_CODE_BATCH_SIZE is unset and its integer value when set, and no
\* invocation of the model receives more texts than that.
C17_BatchSizeIsConfigured ==
    config.made =>
      /\ "batch_size" \in DOMAIN config
      /\ config.batch_size = IF env["COCOINDEX_CODE_BATCH_SIZE"].set
                             THEN ToInt(env["COCOINDEX_CODE_BATCH_SIZE"].val)
                             ELSE 16
      /\ Cardinality(lastCall.encoded) <= config.batch_size

\* C20 as stated: with COCOINDEX_CODE_EMBEDDING_MODEL unset the configured model
\* identifier names all-MiniLM-L6-v2; with it set, the identifier is its value.
C20_DefaultModelIsMiniLM ==
    config.made =>
      IF env["COCOINDEX_CODE_EMBEDDING_MODEL"].set
      THEN config.embedding_model = env["COCOINDEX_CODE_EMBEDDING_MODEL"].val
      ELSE \E i \in 1..Len(config.embedding_model) :
             config.embedding_model[i] = "all-MiniLM-L6-v2"

\* The part of C20 that is about a set variable.
ModelFollowsEnvWhenSet ==
    (config.made /\ env["COCOINDEX_CODE_EMBEDDING_MODEL"].set) =>
      config.embedding_model = env["COCOINDEX_CODE_EMBEDDING_MODEL"].val

FiveNames == {"model_name_or_path", "device", "trust_remote_code", "normalize_embeddings",
              "query_prompt_name"}

AgreeOnAllFive(a, b) == \A n \in FiveNames : Fields(a)[n] = Fields(b)[n]

\* C18: two embedders have equal memo keys exactly when they agree on model
\* identifier, device, trust flag, normalisation flag and query-prompt name; an
\* embedding answered from the memo was computed by an embedder that agrees with
\* the asking one on all five; and a text that an agreeing embedder has already
\* embedded is not handed to the model again.
C18_MemoKeyIsTheFiveFields ==
    /\ [](/\ \A a, b \in EmbedderObjects \cup {embedder} :
               (MemoKey(a) = MemoKey(b)) <=> AgreeOnAllFive(a, b)
          /\ \A m \in lastCall.from : \A n \in FiveNames : m.by[n] = Fields(embedder)[n])
    /\ [][lastCall' # lastCall =>
            \A x \in lastCall'.encoded :
               ~\E m \in memo : /\ m.text = x
                                /\ \A n \in FiveNames : m.by[n] = Fields(embedder)[n]]_vars

\* C18's case: the memo holds a text under one embedder, another embedder that
\* differs from it only in the query-prompt name was asked for the same text and
\* computed it anew, and a later call was answered from the memo.
C18_Witness ==
    /\ embedder.kind = "local"
    /\ \E m1, m2 \in memo :
         /\ m1.text = m2.text
         /\ m1.by.query_prompt_name # m2.by.query_prompt_name
         /\ \A n \in FiveNames \ {"query_prompt_name"} : m1.by[n] = m2.by[n]
    /\ lastCall.from # {}
    /\ lastCall.encoded = {}

\* C19: the state written by __getstate__ holds the five configuration values and
\* nothing else, and the embedder that __setstate__ makes of it has the same five
\* fields, hence the same memo key, and no model, whether or not the original had
\* loaded its model.
C19_PickleRoundTrip ==
    /\ embedder.kind = "local" =>
         /\ DOMAIN GetState(embedder) = FiveNames
         /\ \A n \in FiveNames : GetState(embedder)[n] = Fields(embedder)[n]
    /\ restored.kind = "local" =>
         /\ AgreeOnAllFive(restored, embedder)
         /\ MemoKey(restored) = MemoKey(embedder)
         /\ restored.model = NoModel

\* C19's case: an embedder that has loaded its model was pickled and restored.
C19_Witness ==
    /\ restored.kind = "local"
    /\ embedder.model.loaded
    /\ ~restored.model.loaded
    /\ MemoKey(restored) = MemoKey(embedder)

\* The threads whose call of _get_model has returned.
Returned == { t \in Threads : threads[t].fn # "" /\ threads[t].at = "idle" }

\* C21: SentenceTransformer(...) is called at most once for an embedder, however
\* the threads calling embed, embed_query and the schema query interleave; every
\* call of _get_model that has returned gave the one finished model, never None,
\* and so all callers hold the same object.
C21_ModelBuiltAtMostOnce ==
    /\ loads.count <= 1
    /\ \A t \in Returned :
         /\ threads[t].got.model.loaded
         /\ threads[t].got.serial = 1
         /\ threads[t].got.model =
              SentenceTransformer(embedder.model_name_or_path, embedder.device,
                                  embedder.trust_remote_code)
    /\ \A t, u \in Returned : threads[t].got = threads[u].got

\* C21's case: two threads have returned with the model, through different
\* functions, while a third, which had seen no model before it was stored, is still
\* on its way to the lock.
C21_Witness ==
    /\ loads.count = 1
    /\ \E t, u \in Returned : threads[t].fn # threads[u].fn
    /\ \E v \in Threads : threads[v].at = "acquire"

C23_QueryTakesNoLock ==
    /\ [](\A t \in SearchTasks :
            /\ (req[t].tool = "search" /\ ~req[t].refresh_index) =>
                 /\ pc[t] \in {"query", "done"}
                 /\ lockHolder # t
                 /\ \A i \in 1..Len(waiters) : waiters[i] # t
            /\ (proc = "serve" /\ pc[t] = "query") => ENABLED Query(t, FALSE))
    /\ [][\A t \in SearchTasks :
            (pc[t] = "query" /\ pc'[t] = "done") =>
              UNCHANGED <<rows, comp, tableExists, indexDir, lockVars, passVars>>]_vars

\* C23's case: while the startup pass is in progress and holds the lock, one search
\* without refresh has returned a chunk and another stands before its query.
C23_Witness ==
    /\ pc["bg"] = "files"
    /\ lockHolder = "bg"
    /\ pc["s1"] = "done"
    /\ ~req["s1"].refresh_index
    /\ result["s1"].success
    /\ result["s1"].total_returned >= 1
    /\ pc["s2"] = "query"
    /\ ~req["s2"].refresh_index

FileRows(p) == { r \in rows : r.file_path = p }

\* The rows of file p are those of its current content.
UpToDate(p) == FileRows(p) = IF p \in Walk(fs) THEN process_file(p, fs[p]) ELSE {}

\* C24: a search with refresh_index=true stands before its query only once a pass
\* of its own, begun after the request arrived, has completed: the rows of every
\* file not edited since the request arrived are then those of the file's current
\* content, and they are what the query reads; when its pass fails, the search
\* returns the failure at once, without a query.
C24_RefreshThenQuery ==
    /\ [](\A t \in SearchTasks :
            (req[t].refresh_index /\ pc[t] = "query") =>
              \A p \in TreePaths \ editedSince[t] : UpToDate(p))
    /\ [][\A t \in SearchTasks :
            /\ (req[t].refresh_index /\ pc[t] = "query" /\ pc'[t] = "done"
                  /\ result'[t].success) =>
                 /\ result'[t].results
                      \in query(rows, req[t].query, req[t].limit, req[t].offset)
                 /\ \A p \in TreePaths \ editedSince[t] : UpToDate(p)
            /\ (req[t].refresh_index /\ pc'[t] = "query" /\ pc[t] # "query") =>
                 (pc[t] = "files" /\ todo[t] = {} /\ sync')
            /\ (InPass(t) /\ pc'[t] = "done") =>
                 /\ result'[t].kind = "envelope"
                 /\ ~result'[t].success
                 /\ result'[t].message # ""
                 /\ rows' = rows]_vars

\* C24's case: a file was changed before the request, the table still held its old
\* chunk when the pass began, and the search returned the new chunk.
C24_Witness ==
    /\ pc["s1"] = "done"
    /\ req["s1"].refresh_index
    /\ editedSince["s1"] = {}
    /\ result["s1"].success
    /\ result["s1"].total_returned = 1
    /\ result["s1"].results[1].content = "T2"
    /\ \E r \in rowsAtBegin : r.content = "T1" /\ r.file_path = "a.py"

\* C24's failure case: the pass of a refreshing search has failed and the search
\* has returned the failure.
RefreshFailureReturned ==
    \E t \in SearchTasks :
      /\ pc[t] = "done"
      /\ req[t].refresh_index
      /\ result[t] \in { SearchFailed(exc) : exc \in UpdateErrors }
      /\ ~sync

\* What one successful pass over the tree leaves in cocoindex.db for file p.
ExpectedComp(p) ==
    IF p \in Walk(fs)
    THEN [live |-> TRUE, fp |-> Fingerprint(fs[p]), declared |-> process_file(p, fs[p])]
    ELSE NoComp

\* C25: the step in which a pass fails or is cut short changes no row and no
\* component; a step that processes a file leaves the rows of all other files as
\* they are; and once a pass completes, after a failed one as after any other,
\* the table and the components are what one successful pass over the current
\* tree gives.
C25_CrashedPassHeals ==
    /\ [][\A t \in Tasks :
            /\ (InPass(t) /\ ~InPass(t)' /\ ~sync') => UNCHANGED <<rows, comp, tableExists>>
            /\ \A p \in TreePaths :
                 (p \in mounted'[t] \ mounted[t]) =>
                   { r \in rows' : r.file_path # p } = { r \in rows : r.file_path # p }]_vars
    /\ [](sync =>
            /\ rows = ExpectedRows(fs)
            /\ \A p \in TreePaths : comp[p] = ExpectedComp(p))

\* C25's case: a pass failed after it had processed a file, leaving a row of a
\* deleted file in the table, and the pass after it has removed that row and
\* written the rows that were missing.
C25_Witness ==
    /\ sync
    /\ afterCrash = "partial"
    /\ writes.upserts >= 1
    /\ writes.deletes >= 1
    /\ \E r \in rowsAtBegin : fs[r.file_path] = Absent

\* C26: a successful search answers with the rows ranked against the vector
\* that embed_query gives for the query text, that is, with the query prompt
\* of the embedder applied when it has one.
C26_QueryUsesQueryPath ==
    \A t \in SearchTasks :
        (pc[t] = "done" /\ result[t].kind = "envelope" /\ result[t].success) =>
            result[t].results
                \in Select(rows, embed_query(embedder, req[t].query), req[t].limit,
                           req[t].offset)

\* The other half of C26: every row holds the vector of embed, without a prompt,
\* and for an embedder with no query prompt embed_query gives the vector of embed.
NoPromptPathsAgree ==
    /\ \A r \in rows : r.embedding = Encode(r.content, None)
    /\ (embedder.kind = "local" /\ embedder.query_prompt_name = None) =>
          \A q \in QueryTexts : embed_query(embedder, q) = Embed(q)

\* C27: while a process runs, its embedder is the local backend for the
\* identifier without its leading "sbert/" when the identifier starts with
\* "sbert/", and the remote backend for the unchanged identifier otherwise; the
\* embedder that the passes and the queries of the process use does not change
\* for as long as the process runs.
C27_BackendChosenOnce ==
    /\ [](config.made =>
            LET id == config.embedding_model
            IN  IF id # <<>> /\ id[1] = "sbert/"
                THEN /\ embedder.kind = "local"
                     /\ embedder.model_name_or_path = SubSeq(id, 2, Len(id))
                ELSE /\ embedder.kind = "litellm"
                     /\ embedder.model = id)
    /\ [][(config.made /\ config'.made) => UNCHANGED <<embedder, config>>]_vars

\* C27's case: a server started with a "sbert/" identifier has completed its pass
\* with the local backend for the rest of the identifier.
C27_Witness ==
    /\ proc = "serve"
    /\ sync
    /\ config.made
    /\ config.embedding_model = MiniLM
    /\ embedder.kind = "local"
    /\ embedder.model_name_or_path = <<"sentence-transformers/", "all-MiniLM-L6-v2">>

\* A server started with an identifier that holds "sbert/" elsewhere than at
\* its start runs with the remote backend.
RemoteBackendReached ==
    /\ proc = "serve"
    /\ sync
    /\ embedder = LiteLLMEmbedder(<<"openai/", "sbert/", "small">>)

\* The files whose current content gives a chunk with text c.
Producers(c) ==
    { p \in Walk(fs) : \E d \in process_file(p, fs[p]) : d.content = c }

\* The files that had a row with text c when the pass began.
ProducersAtBegin(c) == { r.file_path : r \in { x \in rowsAtBegin : x.content = c } }

\* C28: when a pass has completed, for every text that rows of two or more files
\* held when the pass began and that one of those files no longer produces while
\* another still does, the table holds a row with that text, and every row with
\* that text names a file that still produces it.
C28_SharedChunkSurvives ==
    sync =>
      \A c \in { r.content : r \in rowsAtBegin } :
          ( /\ Cardinality(ProducersAtBegin(c)) >= 2
            /\ ProducersAtBegin(c) \ Producers(c) # {}
            /\ ProducersAtBegin(c) \cap Producers(c) # {} ) =>
              /\ \E r \in rows : r.content = c
              /\ \A r \in rows : r.content = c => r.file_path \in Producers(c)

\* C28's case: a.py and lib/b.py both held the text T1, a.py was deleted, and the
\* completed pass has kept the row of lib/b.py.
C28_Witness ==
    /\ sync
    /\ {"a.py", "lib/b.py"} \subseteq ProducersAtBegin("T1")
    /\ fs["a.py"] = Absent
    /\ writes.deletes >= 1
    /\ \E r \in rows : r.content = "T1" /\ r.file_path = "lib/b.py"

\* The same with a.py changed to another text instead of deleted.
SharedChunkChangedReached ==
    /\ sync
    /\ {"a.py", "lib/b.py"} \subseteq ProducersAtBegin("T1")
    /\ fs["a.py"] = Text(<<"T2">>)
    /\ \E r \in rows : r.content = "T1" /\ r.file_path = "lib/b.py"

\* C29: the lock is held only by a task that is inside its pass; the step in
\* which a task's pass ends, by returning, raising or being cancelled, leaves
\* the lock not held by that task and free if the task held it; and when the
\* lock is free with nobody waiting, a refreshing search that arrives goes
\* straight into a pass of its own.
C29_LockReleasedOnEveryExit ==
    /\ [](lockHolder # NoTask => InPass(lockHolder))
    /\ [][\A t \in Tasks :
            (InPass(t) /\ ~InPass(t)') =>
               /\ lockHolder' # t
               /\ lockHolder = t => lockHolder' = NoTask]_vars
    /\ [](\A t \in SearchTasks :
            (proc = "serve" /\ pc[t] = "idle" /\ lockHolder = NoTask /\ waiters = <<>>) =>
               ENABLED (CallTool(t, "search", "Q1", 2, 0, TRUE) /\ pc'[t] = "update"))

\* C29's case: the refresh of one search has failed, and the refresh of another
\* search holds the lock and is in its pass.
C29_Witness ==
    /\ pc["s1"] = "done"
    /\ req["s1"].refresh_index
    /\ result["s1"].kind = "envelope"
    /\ ~result["s1"].success
    /\ lastDone = NoTree
    /\ lockHolder = "s2"
    /\ pc["s2"] = "files"

(***************************************************************************)
(* SpecLive: one server that keeps running over a one-file tree, with the  *)
(* startup refresh and two clients whose requests are never cancelled.     *)
(* The event loop runs every task that can run: a woken waiter takes the   *)
(* lock, a pass that can go on goes on (it may still fail instead), and a  *)
(* search that has reached its query runs it.                              *)
(***************************************************************************)
ServeTasks == {"bg"} \cup SearchTasks

InitLive ==
    /\ NothingIndexed
    /\ OsDefault

\* The steps by which indexer_app.update goes on towards its return.
PassProgress(t) ==
    \/ UpdateBegin(t)
    \/ AppMain(t)
    \/ \E p \in TreePaths : ProcessFile(t, p)
    \/ PassFinish(t)

NextLive ==
    \/ StartServe
    \/ \E t \in SearchTasks, refresh \in BOOLEAN : CallTool(t, "search", "Q1", 2, 0, refresh)
    \/ \E t \in ServeTasks : Wake(t)
    \/ \E t \in ServeTasks : PassStep(t)
    \/ \E t \in SearchTasks, fault \in BOOLEAN : Query(t, fault)
    \/ \E t \in SearchTasks : Return(t)

LiveFairness ==
    /\ \A t \in ServeTasks : WF_vars(Wake(t))
    /\ \A t \in ServeTasks : WF_vars(PassProgress(t))
    /\ \A t \in SearchTasks : WF_vars(\E fault \in BOOLEAN : Query(t, fault))

SpecLive == InitLive /\ [][NextLive]_vars /\ LiveFairness

\* C30: a refresh that waits for the lock comes to hold it and run its own pass,
\* and a search request that has arrived comes to its result, an envelope.
C30_EveryRequestIsServed ==
    /\ \A t \in ServeTasks :
          (pc[t] = "waiting") ~> (pc[t] = "update" /\ lockHolder = t)
    /\ \A t \in SearchTasks :
          (req[t].tool = "search" /\ pc[t] # "done")
              ~> (pc[t] = "done" /\ result[t].kind = "envelope")

\* C30's case: both searches wait in the queue behind the startup refresh, which
\* holds the lock in its pass.
C30_Witness ==
    /\ lockHolder = "bg"
    /\ InPass("bg")
    /\ Len(waiters) = 2
    /\ \A t \in SearchTasks : pc[t] = "waiting" /\ req[t].refresh_index

\* A search that waited behind another search has had its turn: it holds the
\* lock in its pass while the other, served before it, has its envelope.
WaiterServedReached ==
    /\ pc["bg"] = "done"
    /\ lockHolder = "s2"
    /\ pc["s2"] = "files"
    /\ pc["s1"] = "done"
    /\ req["s1"].refresh_index
    /\ result["s1"].kind = "envelope"
    /\ result["s1"].success

\* The tree with every file that cannot be decoded or is blank taken away.
WithoutUnusable ==
    [p \in TreePaths |-> IF Unusable(fs[p]) THEN Absent ELSE fs[p]]

\* C31: the step that processes a file which has become undecodable or blank
\* removes exactly the rows the file's component had declared, and counts them as
\* deleted; when the pass has completed, the table is the one a pass leaves over
\* the tree from which all such files are deleted.
C31_UnusableFileLosesItsRows ==
    /\ [][\A t \in Tasks, p \in TreePaths :
            ( /\ pc[t] = "files"
              /\ p \in mounted'[t] \ mounted[t]
              /\ Unusable(fs[p])
              /\ comp[p].declared # {} ) =>
                 /\ rows' = rows \ comp[p].declared
                 /\ comp'[p].declared = {}
                 /\ writes'.deletes = writes.deletes + Cardinality(comp[p].declared)
                 /\ writes'.upserts = writes.upserts]_vars
    /\ [](sync => rows = ExpectedRows(WithoutUnusable))

\* C31's case: a.py had two rows, its content became blank, and the pass that
\* followed has completed and deleted them, leaving the rows of lib/b.py.
C31_Witness ==
    /\ sync
    /\ fs["a.py"] = Text(<<"ws">>)
    /\ Cardinality({ r \in rowsAtBegin : r.file_path = "a.py" }) = 2
    /\ writes.deletes = 2
    /\ \A r \in rows : r.file_path # "a.py"
    /\ \E r \in rows : r.file_path = "lib/b.py"

(***************************************************************************)
(* SpecAnchor: the index command run again and again from the directories  *)
(* of a chain that hold project markers and, at first, no index directory; *)
(* between two runs the working directory changes.  The one-file tree      *)
(* stands for the tree under whichever root a run has.                     *)
(***************************************************************************)
AnchorMarkSets == { {}, {".git"}, {"go.mod"} }

InitAnchor ==
    /\ NothingIndexed
    /\ env = [v \in EnvVars |-> NotSet]
    /\ cwd \in ChainDirs
    /\ marks \in [ChainDirs -> AnchorMarkSets]
    /\ torch = "missing"

\* Between two runs the user changes to another directory: the next process
\* starts there (Path.cwd() is read when the configuration is made).
ChangeDir(d) ==
    /\ proc = "off"
    /\ d # cwd
    /\ cwd' = d
    /\ UNCHANGED <<fs, storeVars, proc, pc, req, result, lockVars, passVars, conn, histVars,
                   env, marks, torch, config, embedder, memo, lastCall, restored, loadVars>>

NextAnchor ==
    \/ \E d \in ChainDirs : ChangeDir(d)
    \/ StartIndex
    \/ PassProgress("cli")
    \/ IndexExit

SpecAnchor == InitAnchor /\ [][NextAnchor]_vars

\* The directories from R down to d, R excluded and d included.
Between(R, d) == { a \in Ancestors(d) : Len(a) > Len(R) }

\* C32: the step in which a pass begins leaves .cocoindex_code in the root of the
\* running configuration; discovery from a directory that holds .cocoindex_code,
\* or from a directory below it with no .cocoindex_code in between, returns that
\* directory, whatever project markers lie in between; and a process started
\* with no root override has the root that discovery gives for its working
\* directory.
C32_ReAnchorsToIndexedRoot ==
    /\ [][\A t \in Tasks :
            (pc[t] = "update" /\ pc'[t] = "app_main"
                 /\ config.codebase_root_path \in ChainDirs) =>
               /\ IndexMarker \in marks'[config.codebase_root_path]
               /\ \A d \in ChainDirs :
                    ((d = config.codebase_root_path \/ IsUnder(d, config.codebase_root_path))
                       /\ \A a \in Between(config.codebase_root_path, d) :
                             IndexMarker \notin marks'[a]) =>
                        _discover_codebase_root(marks', d) = config.codebase_root_path]_vars
    /\ [](\A R \in ChainDirs, d \in ChainDirs :
            (IndexMarker \in marks[R] /\ (d = R \/ IsUnder(d, R))
                 /\ \A a \in Between(R, d) : IndexMarker \notin marks[a]) =>
               _discover_codebase_root(marks, d) = R)
    /\ [][(proc = "off" /\ proc' # "off" /\ ~EnvTruthy(env, "COCOINDEX_CODE_ROOT_PATH")) =>
            config'.codebase_root_path = _discover_codebase_root(marks, cwd)]_vars

\* C32's case: a pass has created .cocoindex_code in /proj, next to the go.mod
\* that was there, and a process started later in /proj/src, which holds .git
\* and no .cocoindex_code, with no root override, has /proj as its root.
C32_Witness ==
    /\ config.made
    /\ env["COCOINDEX_CODE_ROOT_PATH"] = NotSet
    /\ cwd = DirAt(2)
    /\ marks[DirAt(1)] = {"go.mod", IndexMarker}
    /\ marks[DirAt(2)] = {".git"}
    /\ config.codebase_root_path = DirAt(1)

====
